---- MODULE Spec2Model ----
(***************************************************************************)
(* Project state machine of team_creator_studio (core/models.py): the      *)
(* operation history with its undo/redo cursor, the layer list, and the    *)
(* JSON (de)serialisation of ProjectState; the repair pass run after a     *)
(* load (core/validation.py) and the compositor (core/renderer.py), both   *)
(* of which look at the files of the project directory.                    *)
(*                                                                         *)
(* Conventions.  Python strings that are compared by prefix (operation     *)
(* ids) or that are optional are sequences of one-character strings;       *)
(* Python's None in such a field is the one-element sequence None.         *)
(* List indexes keep their Python values (0-based, -1 = "no operation"),   *)
(* so operations[i] of the source is At(operations, i) here.               *)
(* Timestamps are readings of a logical clock.  Opacity is in hundredths   *)
(* (100 = 1.0).                                                            *)
(***************************************************************************)
EXTENDS Integers, Sequences, FiniteSets, TLC

VARIABLES
    project_state,  \* the in-memory ProjectState object
    document,       \* meta/project.json: the dictionary json.dump wrote
    files,          \* the files on disk: absolute path -> content
    clock,          \* datetime.utcnow(), as a logical clock
    last,           \* the last call made on the object: name, argument, result
    law,            \* bookkeeping of the current add* undo* redo* run of calls
    commands        \* the service commands under way, each with its object

vars == <<project_state, document, files, clock, last, law, commands>>

----------------------------------------------------------------------------
(* Bounds of the model *)

MaxOps == 3
MaxLayers == 2
MaxClock == 6
MaxRepairOps == 2
MaxRepairCalls == 2
MaxRenderOps == 2

\* Operations on the layer stacks handed to the compositor.
MaxPaintOps == 1

\* Operations in the projects handed to the commands, and commands in a row.
MaxServiceOps == 1
MaxServiceCalls == 1

\* Calls in a row that change a field of a layer.
MaxFieldCalls == 1

----------------------------------------------------------------------------
(* Values *)

None == <<"<None>">>

\* Operation ids (OperationRecord.id is any string: uuid4 text from
\* OperationRecord.create, whatever the document holds from from_dict).
IdStrings == {<<"a">>, <<"a", "a">>, <<"a", "b">>, <<"b">>}

\* Arguments of get_operation_by_id: ids, prefixes of ids, the empty string.
QueryStrings == IdStrings \cup {<<>>}

\* Layer ids, in the order uuid4 hands them out.
LayerIds == <<<<"L", "1">>, <<"L", "2">>, <<"L", "3">>, <<"L", "4">>>>

Min(a, b) == IF a < b THEN a ELSE b
Max(a, b) == IF a > b THEN a ELSE b

\* s[i] of a Python list
At(s, i) == s[i + 1]

\* s[:stop] of a Python list
PySliceTo(s, stop) ==
    LET n == Len(s)
        e == IF stop < 0 THEN Max(0, n + stop) ELSE Min(stop, n)
    IN  SubSeq(s, 1, e)

\* s.pop(i) for 0 <= i < len(s): the list that remains
PyPop(s, i) == SubSeq(s, 1, i) \o SubSeq(s, i + 2, Len(s))

\* id.startswith(prefix)
startswith(id, prefix) ==
    /\ Len(prefix) <= Len(id)
    /\ SubSeq(id, 1, Len(prefix)) = prefix

\* Python's truth value of an optional string: None and "" are false.
Truthy(s) == s # None /\ s # <<>>

\* The project directory handed to the validator and the renderer
\* (workspace.get_project_path(...), an absolute path).
project_path == <<"/", "p">>

\* Path(p).is_absolute()
is_absolute(p) == Len(p) > 0 /\ p[1] = "/"

\* base / p: an absolute p replaces base, a relative p is appended.
joinpath(base, p) == IF is_absolute(p) THEN p ELSE base \o <<"/">> \o p

\* Path(p).relative_to(base): the part of p below base; ValueError when p
\* is not below base.
relative_to(p, base) ==
    IF startswith(p, base \o <<"/">>) /\ Len(p) > Len(base) + 1
    THEN [raised |-> "", path |-> SubSeq(p, Len(base) + 2, Len(p))]
    ELSE [raised |-> "ValueError", path |-> p]

\* "working/composite.png", the path render_project writes and stores.
composite_png == <<"w", "/", "c">>

\* The content of a file: a decodable image (its size, and the bitmaps
\* pasted onto it from bottom to top) or bytes PIL cannot decode.
Image(width, height, pasted) ==
    [kind |-> "image", width |-> width, height |-> height, pasted |-> pasted]

Junk == [kind |-> "junk"]

\* An empty disk.
NoFiles == [p \in {} |-> Junk]

\* Path.exists()
exists(fs, p) == p \in DOMAIN fs

\* imaging.io.save_png(image, path): the file is created or replaced.
save_png(fs, p, image) ==
    [q \in DOMAIN fs \cup {p} |-> IF q = p THEN image ELSE fs[q]]

----------------------------------------------------------------------------
(* Records *)

\* Layer.create(name, layer_type, layer_path, source_image_id): the defaults
\* visible=True, opacity=1.0, blend_mode="normal", order=0, x=0, y=0.
Layer_create(id) ==
    [id |-> id, name |-> "Base", type |-> "raster", source_image_id |-> None,
     layer_path |-> <<"w", "/">> \o id, visible |-> TRUE, opacity |-> 100,
     blend_mode |-> "normal", order |-> 0, x |-> 0, y |-> 0]

\* SourceImage.create(filename, original_path)
SourceImage_create(id, original_path) ==
    [id |-> id, filename |-> "image.png", original_path |-> original_path,
     imported_at |-> 0]

\* OperationRecord.create(op_type, params, input_layer_id, output_path)
OperationRecord_create(id, input_layer_id) ==
    [id |-> id, op_type |-> "color_replace", params |-> [tolerance |-> 0],
     created_at |-> 0, input_layer_id |-> input_layer_id,
     output_path |-> <<"o", "/">> \o id, output_layer_path |-> None,
     note |-> None]

\* ProjectState.create_new
create_new(now) ==
    [team_name |-> "Team", team_slug |-> "team",
     project_name |-> "Project", project_slug |-> "project",
     created_at |-> now, updated_at |-> now,
     source_images |-> <<>>, layers |-> <<>>, operations |-> <<>>,
     active_composite_path |-> None, active_op_index |-> -1,
     canvas_width |-> 1024, canvas_height |-> 1024,
     canvas_background |-> "transparent", canvas_dpi |-> None]

----------------------------------------------------------------------------
(* ProjectState methods, as functions of the object p and the clock reading *)

update_timestamp(p, now) == [p EXCEPT !.updated_at = now]

add_source_image(p, source_image, now) ==
    update_timestamp([p EXCEPT !.source_images = Append(@, source_image)], now)

add_layer(p, layer, now) ==
    update_timestamp([p EXCEPT !.layers = Append(@, layer)], now)

\* add_operation without the truncation of the redo branch
add_operation_no_truncate(p, operation, now) ==
    LET ops == Append(p.operations, operation)
    IN  update_timestamp(
            [p EXCEPT !.operations = ops, !.active_op_index = Len(ops) - 1],
            now)

add_operation(p, operation, now) ==
    LET kept == IF p.active_op_index < Len(p.operations) - 1
                THEN PySliceTo(p.operations, p.active_op_index + 1)
                ELSE p.operations
        ops  == Append(kept, operation)
    IN  update_timestamp(
            [p EXCEPT !.operations = ops, !.active_op_index = Len(ops) - 1],
            now)

can_undo(p) == p.active_op_index >= 0

\* can_redo with the bound off by one
can_redo_off_by_one(p) == p.active_op_index < Len(p.operations)

can_redo(p) == p.active_op_index < Len(p.operations) - 1

\* Each method below gives [ret, raised, state]: the value returned, the
\* exception raised ("" when none) and the object afterwards.
Result(ret, raised, p) == [ret |-> ret, raised |-> raised, state |-> p]

\* undo that pops the undone record off the history
undo_pops_record(p, now) ==
    IF ~can_undo(p)
    THEN Result(FALSE, "", p)
    ELSE Result(TRUE, "",
                update_timestamp(
                    [p EXCEPT !.operations = PyPop(@, p.active_op_index),
                              !.active_op_index = @ - 1], now))

\* undo that refreshes updated_at before it looks at the cursor
undo_touches_when_refused(p, now) ==
    IF ~can_undo(p)
    THEN Result(FALSE, "", update_timestamp(p, now))
    ELSE Result(TRUE, "",
                update_timestamp(
                    [p EXCEPT !.active_op_index = @ - 1], now))

undo(p, now) ==
    IF ~can_undo(p)
    THEN Result(FALSE, "", p)
    ELSE Result(TRUE, "",
                update_timestamp(
                    [p EXCEPT !.active_op_index = @ - 1], now))

redo(p, now) ==
    IF ~can_redo(p)
    THEN Result(FALSE, "", p)
    ELSE Result(TRUE, "",
                update_timestamp(
                    [p EXCEPT !.active_op_index = @ + 1], now))

\* delete_operation that does not shift the cursor when a record before it
\* is removed
delete_operation_no_shift(p, op_index, now) ==
    IF op_index < 0 \/ op_index >= Len(p.operations)
    THEN Result(None, "IndexError", p)
    ELSE LET active == IF op_index = p.active_op_index
                       THEN op_index - 1
                       ELSE p.active_op_index
         IN  Result(At(p.operations, op_index), "",
                    update_timestamp(
                        [p EXCEPT !.operations = PyPop(@, op_index),
                                  !.active_op_index = active], now))

\* delete_operation that leaves the cursor where it is when the active
\* record is removed
delete_operation_keeps_cursor(p, op_index, now) ==
    IF op_index < 0 \/ op_index >= Len(p.operations)
    THEN Result(None, "IndexError", p)
    ELSE LET active == IF op_index < p.active_op_index
                       THEN p.active_op_index - 1
                       ELSE p.active_op_index
         IN  Result(At(p.operations, op_index), "",
                    update_timestamp(
                        [p EXCEPT !.operations = PyPop(@, op_index),
                                  !.active_op_index = active], now))

\* delete_operation without the op_index < 0 test: list.pop takes a
\* negative index -len..-1 as counted from the end
delete_operation_accepts_negative(p, op_index, now) ==
    IF op_index >= Len(p.operations) \/ op_index < -Len(p.operations)
    THEN Result(None, "IndexError", p)
    ELSE LET at == IF op_index < 0 THEN op_index + Len(p.operations)
                   ELSE op_index
             active == IF op_index < p.active_op_index
                       THEN p.active_op_index - 1
                       ELSE IF op_index = p.active_op_index
                            THEN op_index - 1
                            ELSE p.active_op_index
         IN  Result(At(p.operations, at), "",
                    update_timestamp(
                        [p EXCEPT !.operations = PyPop(@, at),
                                  !.active_op_index = active], now))

delete_operation(p, op_index, now) ==
    IF op_index < 0 \/ op_index >= Len(p.operations)
    THEN Result(None, "IndexError", p)
    ELSE LET deleted_op == At(p.operations, op_index)
             ops == PyPop(p.operations, op_index)
             active == IF op_index < p.active_op_index
                       THEN p.active_op_index - 1
                       ELSE IF op_index = p.active_op_index
                            THEN op_index - 1
                            ELSE p.active_op_index
         IN  Result(deleted_op, "",
                    update_timestamp(
                        [p EXCEPT !.operations = ops,
                                  !.active_op_index = active], now))

\* The list `matches` of get_operation_by_id: (index, operation) pairs in
\* index order.
RECURSIVE MatchesUpTo(_, _, _)
MatchesUpTo(ops, op_id, n) ==
    IF n = 0 THEN <<>>
    ELSE LET rest == MatchesUpTo(ops, op_id, n - 1)
             op   == ops[n]
         IN  IF op.id = op_id \/ startswith(op.id, op_id)
             THEN Append(rest, <<n - 1, op>>)
             ELSE rest

\* get_operation_by_id that settles an ambiguous prefix on the first match
get_operation_by_id_first_match(p, op_id) ==
    LET matches == MatchesUpTo(p.operations, op_id, Len(p.operations))
    IN  IF Len(matches) = 0 THEN Result(None, "", p)
        ELSE Result(matches[1], "", p)

get_operation_by_id(p, op_id) ==
    LET matches == MatchesUpTo(p.operations, op_id, Len(p.operations))
    IN  IF Len(matches) = 0 THEN Result(None, "", p)
        ELSE IF Len(matches) = 1 THEN Result(matches[1], "", p)
        ELSE Result(None, "ValueError", p)

----------------------------------------------------------------------------
(* Layer order *)

\* get_layer_by_id / get_layer_index: the position (1-based here) of the
\* first layer of the list with this id, 0 when there is none.
get_layer_index(p, layer_id) ==
    LET hits == {i \in 1..Len(p.layers) : p.layers[i].id = layer_id}
    IN  IF hits = {} THEN 0 ELSE CHOOSE i \in hits : \A j \in hits : i <= j

\* get_sorted_layers: sorted(layers, key=order) is stable, so equal orders
\* stay in list order.  The result is the sequence of list positions, since
\* the callers write through to the layer objects.
RECURSIVE InsertSorted(_, _, _)
InsertSorted(layers, sorted, i) ==
    IF sorted = <<>> THEN <<i>>
    ELSE IF layers[sorted[Len(sorted)]].order <= layers[i].order
         THEN Append(sorted, i)
         ELSE Append(InsertSorted(layers, SubSeq(sorted, 1, Len(sorted) - 1), i),
                     sorted[Len(sorted)])

RECURSIVE SortedUpTo(_, _)
SortedUpTo(layers, n) ==
    IF n = 0 THEN <<>>
    ELSE InsertSorted(layers, SortedUpTo(layers, n - 1), n)

get_sorted_layers(p) == SortedUpTo(p.layers, Len(p.layers))

\* The position in the sorted sequence (1-based) of the first layer with
\* this id, 0 when there is none: next(i for i, l in enumerate(...)).
SortedPosition(p, sorted, layer_id) ==
    LET hits == {i \in 1..Len(sorted) : p.layers[sorted[i]].id = layer_id}
    IN  IF hits = {} THEN 0 ELSE CHOOSE i \in hits : \A j \in hits : i <= j

\* layer.order, other.order = other.order, layer.order
SwapOrder(p, a, b) ==
    [p EXCEPT !.layers = [@ EXCEPT ![a].order = p.layers[b].order,
                                   ![b].order = p.layers[a].order]]

\* move_layer_up that swaps with the top-most layer instead of the next one
move_layer_up_to_top(p, layer_id, now) ==
    LET layer  == get_layer_index(p, layer_id)
        sorted == get_sorted_layers(p)
        current_pos == SortedPosition(p, sorted, layer_id)
    IN  IF layer = 0 THEN Result(FALSE, "", p)
        ELSE IF current_pos = 0 \/ current_pos = Len(sorted)
        THEN Result(FALSE, "", p)
        ELSE Result(TRUE, "",
                    update_timestamp(
                        SwapOrder(p, layer, sorted[Len(sorted)]), now))

move_layer_up(p, layer_id, now) ==
    LET layer  == get_layer_index(p, layer_id)
        sorted == get_sorted_layers(p)
        current_pos == SortedPosition(p, sorted, layer_id)
    IN  IF layer = 0 THEN Result(FALSE, "", p)
        ELSE IF current_pos = 0 \/ current_pos = Len(sorted)
        THEN Result(FALSE, "", p)
        ELSE Result(TRUE, "",
                    update_timestamp(
                        SwapOrder(p, layer, sorted[current_pos + 1]), now))

\* move_layer_down that gives the layer the order of the previous one and
\* leaves the previous one as it is
move_layer_down_takes_order(p, layer_id, now) ==
    LET layer  == get_layer_index(p, layer_id)
        sorted == get_sorted_layers(p)
        current_pos == SortedPosition(p, sorted, layer_id)
    IN  IF layer = 0 THEN Result(FALSE, "", p)
        ELSE IF current_pos = 0 \/ current_pos = 1
        THEN Result(FALSE, "", p)
        ELSE Result(TRUE, "",
                    update_timestamp(
                        [p EXCEPT !.layers[layer].order =
                                      p.layers[sorted[current_pos - 1]].order],
                        now))

move_layer_down(p, layer_id, now) ==
    LET layer  == get_layer_index(p, layer_id)
        sorted == get_sorted_layers(p)
        current_pos == SortedPosition(p, sorted, layer_id)
    IN  IF layer = 0 THEN Result(FALSE, "", p)
        ELSE IF current_pos = 0 \/ current_pos = 1
        THEN Result(FALSE, "", p)
        ELSE Result(TRUE, "",
                    update_timestamp(
                        SwapOrder(p, layer, sorted[current_pos - 1]), now))

\* delete_layer: layers.pop(index); the deleted layer is returned, None when
\* there is no layer with this id.
delete_layer(p, layer_id, now) ==
    LET index == get_layer_index(p, layer_id)
    IN  IF index = 0 THEN Result(None, "", p)
        ELSE Result(p.layers[index], "",
                    update_timestamp(
                        [p EXCEPT !.layers = PyPop(@, index - 1)], now))

set_layer_visibility(p, layer_id, visible, now) ==
    LET layer == get_layer_index(p, layer_id)
    IN  IF layer = 0 THEN Result(FALSE, "", p)
        ELSE Result(TRUE, "",
                    update_timestamp(
                        [p EXCEPT !.layers[layer].visible = visible], now))

\* set_layer_opacity that clamps at the top only
set_layer_opacity_no_floor(p, layer_id, opacity, now) ==
    LET layer == get_layer_index(p, layer_id)
    IN  IF layer = 0 THEN Result(FALSE, "", p)
        ELSE Result(TRUE, "",
                    update_timestamp(
                        [p EXCEPT !.layers[layer].opacity =
                                      Min(100, opacity)], now))

\* layer.opacity = max(0.0, min(1.0, opacity)), in hundredths here.
set_layer_opacity(p, layer_id, opacity, now) ==
    LET layer == get_layer_index(p, layer_id)
    IN  IF layer = 0 THEN Result(FALSE, "", p)
        ELSE Result(TRUE, "",
                    update_timestamp(
                        [p EXCEPT !.layers[layer].opacity =
                                      Max(0, Min(100, opacity))], now))

\* set_layer_position: layer.x = x; layer.y = y
set_layer_position(p, layer_id, x, y, now) ==
    LET layer == get_layer_index(p, layer_id)
    IN  IF layer = 0 THEN Result(FALSE, "", p)
        ELSE Result(TRUE, "",
                    update_timestamp(
                        [p EXCEPT !.layers[layer].x = x,
                                  !.layers[layer].y = y], now))

\* rename_layer: layer.name = name
rename_layer(p, layer_id, name, now) ==
    LET layer == get_layer_index(p, layer_id)
    IN  IF layer = 0 THEN Result(FALSE, "", p)
        ELSE Result(TRUE, "",
                    update_timestamp(
                        [p EXCEPT !.layers[layer].name = name], now))

\* The index i that enumerate(sorted_layers) gives the layer at list
\* position n.
EnumerateIndex(sorted, n) ==
    (CHOOSE i \in 1..Len(sorted) : sorted[i] = n) - 1

\* normalize_layer_order that numbers the layers in list order
normalize_layer_order_by_position(p, now) ==
    update_timestamp(
        [p EXCEPT !.layers =
            [n \in 1..Len(p.layers) |-> [p.layers[n] EXCEPT !.order = n - 1]]],
        now)

\* for i, layer in enumerate(get_sorted_layers()): layer.order = i
normalize_layer_order(p, now) ==
    LET sorted_layers == get_sorted_layers(p)
    IN  update_timestamp(
            [p EXCEPT !.layers =
                [n \in 1..Len(p.layers) |->
                    [p.layers[n] EXCEPT
                        !.order = EnumerateIndex(sorted_layers, n)]]],
            now)

\* get_visible_layer_count: sum(1 for layer in layers if layer.visible)
get_visible_layer_count(p) ==
    Cardinality({n \in 1..Len(p.layers) : p.layers[n].visible})

----------------------------------------------------------------------------
(* Serialisation.  A dictionary is a function from its keys. *)

\* data with data[k] = v added when k is not a key: if k not in data: ...
SetDefault(data, k, v) ==
    IF k \in DOMAIN data THEN data
    ELSE [x \in DOMAIN data \cup {k} |-> IF x = k THEN v ELSE data[x]]

\* data.get(k, default)
DictGet(data, k, default) == IF k \in DOMAIN data THEN data[k] ELSE default

SourceImage_to_dict(img) ==
    [id |-> img.id, filename |-> img.filename,
     original_path |-> img.original_path, imported_at |-> img.imported_at]

SourceImage_from_dict(data) ==
    [id |-> data.id, filename |-> data.filename,
     original_path |-> data.original_path, imported_at |-> data.imported_at]

Layer_to_dict(layer) ==
    [id |-> layer.id, name |-> layer.name, type |-> layer.type,
     source_image_id |-> layer.source_image_id,
     layer_path |-> layer.layer_path, visible |-> layer.visible,
     opacity |-> layer.opacity, blend_mode |-> layer.blend_mode,
     order |-> layer.order, x |-> layer.x, y |-> layer.y]

Layer_from_dict(data) ==
    LET d == SetDefault(SetDefault(SetDefault(SetDefault(SetDefault(data,
                 "order", 0), "x", 0), "y", 0), "opacity", 100),
                 "visible", TRUE)
    IN  [id |-> d.id, name |-> d.name, type |-> d.type,
         source_image_id |-> d.source_image_id, layer_path |-> d.layer_path,
         visible |-> d.visible, opacity |-> d.opacity,
         blend_mode |-> d.blend_mode, order |-> d.order, x |-> d.x, y |-> d.y]

OperationRecord_to_dict(op) ==
    [id |-> op.id, op_type |-> op.op_type, params |-> op.params,
     created_at |-> op.created_at, input_layer_id |-> op.input_layer_id,
     output_path |-> op.output_path,
     output_layer_path |-> op.output_layer_path, note |-> op.note]

OperationRecord_from_dict(data) ==
    LET d == SetDefault(SetDefault(data, "output_layer_path", None),
                        "note", None)
    IN  [id |-> d.id, op_type |-> d.op_type, params |-> d.params,
         created_at |-> d.created_at, input_layer_id |-> d.input_layer_id,
         output_path |-> d.output_path,
         output_layer_path |-> d.output_layer_path, note |-> d.note]

to_dict(p) ==
    [team_name |-> p.team_name, team_slug |-> p.team_slug,
     project_name |-> p.project_name, project_slug |-> p.project_slug,
     created_at |-> p.created_at, updated_at |-> p.updated_at,
     source_images |->
         [i \in 1..Len(p.source_images) |->
             SourceImage_to_dict(p.source_images[i])],
     layers |-> [i \in 1..Len(p.layers) |-> Layer_to_dict(p.layers[i])],
     operations |->
         [i \in 1..Len(p.operations) |->
             OperationRecord_to_dict(p.operations[i])],
     active_composite_path |-> p.active_composite_path,
     active_op_index |-> p.active_op_index,
     canvas_width |-> p.canvas_width, canvas_height |-> p.canvas_height,
     canvas_background |-> p.canvas_background, canvas_dpi |-> p.canvas_dpi]

\* The order migration of from_dict: a layer whose order is 0 and that is
\* not first in the list takes its list position i (0-based) as its order.
MigrateOrder(layers) ==
    [i \in 1..Len(layers) |->
        IF layers[i].order = 0 /\ i - 1 > 0
        THEN [layers[i] EXCEPT !.order = i - 1]
        ELSE layers[i]]

\* from_dict that puts the cursor of a document without active_op_index
\* at -1 whatever its operations
from_dict_cursor_unset(data) ==
    LET ops_in    == DictGet(data, "operations", <<>>)
        layers_in == DictGet(data, "layers", <<>>)
        images_in == DictGet(data, "source_images", <<>>)
        operations ==
            [i \in 1..Len(ops_in) |-> OperationRecord_from_dict(ops_in[i])]
        layers == [i \in 1..Len(layers_in) |-> Layer_from_dict(layers_in[i])]
        active_op_index ==
            IF "active_op_index" \notin DOMAIN data THEN -1
            ELSE data.active_op_index
        no_canvas == \/ "canvas_width" \notin DOMAIN data
                     \/ "canvas_height" \notin DOMAIN data
    IN  [team_name |-> data.team_name, team_slug |-> data.team_slug,
         project_name |-> data.project_name,
         project_slug |-> data.project_slug,
         created_at |-> data.created_at, updated_at |-> data.updated_at,
         source_images |->
             [i \in 1..Len(images_in) |-> SourceImage_from_dict(images_in[i])],
         layers |-> MigrateOrder(layers),
         operations |-> operations,
         active_composite_path |-> DictGet(data, "active_composite_path", None),
         active_op_index |-> active_op_index,
         canvas_width |-> IF no_canvas THEN 1024 ELSE data.canvas_width,
         canvas_height |-> IF no_canvas THEN 1024 ELSE data.canvas_height,
         canvas_background |->
             DictGet(data, "canvas_background", "transparent"),
         canvas_dpi |-> DictGet(data, "canvas_dpi", None)]

from_dict(data) ==
    LET ops_in    == DictGet(data, "operations", <<>>)
        layers_in == DictGet(data, "layers", <<>>)
        images_in == DictGet(data, "source_images", <<>>)
        operations ==
            [i \in 1..Len(ops_in) |-> OperationRecord_from_dict(ops_in[i])]
        layers == [i \in 1..Len(layers_in) |-> Layer_from_dict(layers_in[i])]
        active_op_index ==
            IF "active_op_index" \notin DOMAIN data
            THEN IF Len(operations) > 0 THEN Len(operations) - 1 ELSE -1
            ELSE data.active_op_index
        \* data.get(k) is None: a key that is present holds an integer
        no_canvas == \/ "canvas_width" \notin DOMAIN data
                     \/ "canvas_height" \notin DOMAIN data
    IN  [team_name |-> data.team_name, team_slug |-> data.team_slug,
         project_name |-> data.project_name,
         project_slug |-> data.project_slug,
         created_at |-> data.created_at, updated_at |-> data.updated_at,
         source_images |->
             [i \in 1..Len(images_in) |-> SourceImage_from_dict(images_in[i])],
         layers |-> MigrateOrder(layers),
         operations |-> operations,
         active_composite_path |-> DictGet(data, "active_composite_path", None),
         active_op_index |-> active_op_index,
         canvas_width |-> IF no_canvas THEN 1024 ELSE data.canvas_width,
         canvas_height |-> IF no_canvas THEN 1024 ELSE data.canvas_height,
         canvas_background |->
             DictGet(data, "canvas_background", "transparent"),
         canvas_dpi |-> DictGet(data, "canvas_dpi", None)]

\* cls(**data) of a dataclass: TypeError for a keyword that is no field and
\* for a field without default that is not given.
Construct(data, fields, defaulted) ==
    IF /\ DOMAIN data \subseteq fields
       /\ fields \ defaulted \subseteq DOMAIN data
    THEN "" ELSE "TypeError"

SourceImage_fields == {"id", "filename", "original_path", "imported_at"}

Layer_fields ==
    {"id", "name", "type", "source_image_id", "layer_path", "visible",
     "opacity", "blend_mode", "order", "x", "y"}

OperationRecord_fields ==
    {"id", "op_type", "params", "created_at", "input_layer_id",
     "output_path", "output_layer_path", "note"}

\* The exception each from_dict ends with, "" when it returns.
SourceImage_from_dict_raised(data) == Construct(data, SourceImage_fields, {})

Layer_from_dict_raised(data) ==
    Construct(SetDefault(SetDefault(SetDefault(SetDefault(SetDefault(data,
                  "order", 0), "x", 0), "y", 0), "opacity", 100),
                  "visible", TRUE),
              Layer_fields, {})

OperationRecord_from_dict_raised(data) ==
    Construct(SetDefault(SetDefault(data, "output_layer_path", None),
                         "note", None),
              OperationRecord_fields, {"output_layer_path", "note"})

\* The first exception on the way through ProjectState.from_dict: the
\* operations, the layers, the keys read with data[...], the source images.
from_dict_raised(data) ==
    LET ops_in    == DictGet(data, "operations", <<>>)
        layers_in == DictGet(data, "layers", <<>>)
        images_in == DictGet(data, "source_images", <<>>)
    IN  IF \E i \in 1..Len(ops_in) :
               OperationRecord_from_dict_raised(ops_in[i]) # ""
        THEN "TypeError"
        ELSE IF \E i \in 1..Len(layers_in) :
                    Layer_from_dict_raised(layers_in[i]) # ""
        THEN "TypeError"
        ELSE IF ~({"team_name", "team_slug", "project_name", "project_slug",
                   "created_at", "updated_at"} \subseteq DOMAIN data)
        THEN "KeyError"
        ELSE IF \E i \in 1..Len(images_in) :
                    SourceImage_from_dict_raised(images_in[i]) # ""
        THEN "TypeError"
        ELSE ""

----------------------------------------------------------------------------
(* core/validation.py: validate_and_repair_project_state.  Each step gives  *)
(* the object as it leaves it and the entries it appends to `repairs`; an  *)
(* entry is the fixed part of the message the source formats.              *)

Step(p, repairs) == [state |-> p, repairs |-> repairs]

\* Step 1 without the clamp from below
ClampActiveOpIndex_top_only(p) ==
    IF p.operations # <<>>
    THEN LET max_index == Len(p.operations) - 1
         IN  IF p.active_op_index > max_index
             THEN Step([p EXCEPT !.active_op_index = max_index],
                       <<"Clamped active_op_index">>)
             ELSE Step(p, <<>>)
    ELSE Step(p, <<>>)

\* Step 1: active_op_index into [-1, len(operations) - 1].
ClampActiveOpIndex(p) ==
    IF p.operations # <<>>
    THEN LET max_index == Len(p.operations) - 1
         IN  IF p.active_op_index > max_index
             THEN Step([p EXCEPT !.active_op_index = max_index],
                       <<"Clamped active_op_index">>)
             ELSE IF p.active_op_index < -1
             THEN Step([p EXCEPT !.active_op_index = -1],
                       <<"Clamped active_op_index">>)
             ELSE Step(p, <<>>)
    ELSE IF p.active_op_index # -1
         THEN Step([p EXCEPT !.active_op_index = -1],
                   <<"Set active_op_index to -1 (no operations)">>)
         ELSE Step(p, <<>>)

\* The indexes i of range(active_op_index + 1) whose operation has no file
\* at project_path / op.output_path.
MissingOutputs(p, fs) ==
    {i \in 0..p.active_op_index :
        /\ i < Len(p.operations)
        /\ ~exists(fs, joinpath(project_path, At(p.operations, i).output_path))}

\* Step 2: the cursor moves to just before the first operation, up to the
\* active one, whose output file is missing.
CheckOperationOutputs(p, fs) ==
    LET missing == MissingOutputs(p, fs)
    IN  IF missing = {} THEN Step(p, <<>>)
        ELSE LET i == CHOOSE m \in missing : \A n \in missing : m <= n
             IN  Step([p EXCEPT !.active_op_index = i - 1],
                      <<"Operation output missing">>)

\* Step 3: a canvas size that is not positive is read off the first layer's
\* own bitmap, when that file exists and PIL can open it.
InferCanvasSize(p, fs) ==
    IF (p.canvas_width <= 0 \/ p.canvas_height <= 0) /\ p.layers # <<>>
    THEN LET layer_bitmap_path ==
                 joinpath(project_path, p.layers[1].layer_path)
         IN  IF ~exists(fs, layer_bitmap_path) THEN Step(p, <<>>)
             ELSE IF fs[layer_bitmap_path].kind = "image"
             THEN Step([p EXCEPT
                           !.canvas_width = fs[layer_bitmap_path].width,
                           !.canvas_height = fs[layer_bitmap_path].height],
                       <<"Inferred canvas size from first layer">>)
             ELSE Step(p, <<"Warning: Could not infer canvas size">>)
    ELSE Step(p, <<>>)

\* Step 4 that does not ask for more than one layer
NormalizeLegacyOrder_any_length(p, now) ==
    IF /\ Len(p.layers) > 0
       /\ \A n \in 1..Len(p.layers) : p.layers[n].order = p.layers[1].order
    THEN Step(normalize_layer_order(p, now), <<"Normalized layer order">>)
    ELSE Step(p, <<>>)

\* Step 4: len(set(orders)) == 1 and len(orders) > 1
NormalizeLegacyOrder(p, now) ==
    IF /\ Len(p.layers) > 1
       /\ \A n \in 1..Len(p.layers) : p.layers[n].order = p.layers[1].order
    THEN Step(normalize_layer_order(p, now), <<"Normalized layer order">>)
    ELSE Step(p, <<>>)

\* Step 5: the composite is only looked at; the caller is to re-render.
CheckComposite(p, fs) ==
    IF Truthy(p.active_composite_path)
    THEN IF ~exists(fs, joinpath(project_path, p.active_composite_path))
         THEN Step(p, <<"Composite file missing",
                        "Composite needs re-rendering">>)
         ELSE Step(p, <<>>)
    ELSE IF p.active_op_index >= 0 \/ p.layers # <<>>
         THEN Step(p, <<"Composite path not set",
                        "Composite needs re-rendering">>)
         ELSE Step(p, <<>>)

\* Step 6 on one list: an absolute path below the project directory is made
\* relative, an absolute path elsewhere is kept and reported.
RelativePaths(items, field) ==
    [n \in 1..Len(items) |->
        IF is_absolute(items[n][field])
        THEN [items[n] EXCEPT
                 ![field] = relative_to(items[n][field], project_path).path]
        ELSE items[n]]

RECURSIVE PathRepairs(_, _, _)
PathRepairs(items, field, n) ==
    IF n = 0 THEN <<>>
    ELSE PathRepairs(items, field, n - 1) \o
         ( IF ~is_absolute(items[n][field]) THEN <<>>
           ELSE IF relative_to(items[n][field], project_path).raised = ""
           THEN <<"Converted path to relative">>
           ELSE <<"Warning: path outside project">> )

\* Step 6: source images, then layers, then operations.
CheckRelativePaths(p) ==
    Step([p EXCEPT
             !.source_images = RelativePaths(@, "original_path"),
             !.layers = RelativePaths(@, "layer_path"),
             !.operations = RelativePaths(@, "output_path")],
         PathRepairs(p.source_images, "original_path", Len(p.source_images))
         \o PathRepairs(p.layers, "layer_path", Len(p.layers))
         \o PathRepairs(p.operations, "output_path", Len(p.operations)))

\* The seven steps in turn; the list of repairs is returned, and
\* updated_at is refreshed (step 7) when the list is not empty.
validate_and_repair_project_state(p, fs, now) ==
    LET s1 == ClampActiveOpIndex(p)
        s2 == CheckOperationOutputs(s1.state, fs)
        s3 == InferCanvasSize(s2.state, fs)
        s4 == NormalizeLegacyOrder(s3.state, now)
        s5 == CheckComposite(s4.state, fs)
        s6 == CheckRelativePaths(s5.state)
        repairs == s1.repairs \o s2.repairs \o s3.repairs \o s4.repairs
                   \o s5.repairs \o s6.repairs
    IN  Result(repairs, "",
               IF repairs # <<>> THEN update_timestamp(s6.state, now)
               ELSE s6.state)

----------------------------------------------------------------------------
(* core/validation.py: check_project_health.  An entry of issues or of     *)
(* warnings is the fixed part of the message and what it is about.         *)

\* The entries for the items of a list whose file is not on disk.
RECURSIVE MissingFileWarnings(_, _, _, _, _)
MissingFileWarnings(items, field, fs, message, n) ==
    IF n = 0 THEN <<>>
    ELSE MissingFileWarnings(items, field, fs, message, n - 1) \o
         ( IF exists(fs, joinpath(project_path, items[n][field])) THEN <<>>
           ELSE <<<<message, items[n][field]>>>> )

\* The issues loop with the active operation itself left out
RECURSIVE OperationIssues_below_active(_, _, _)
OperationIssues_below_active(p, fs, n) ==
    IF n = 0 THEN <<>>
    ELSE OperationIssues_below_active(p, fs, n - 1) \o
         ( IF /\ ~exists(fs, joinpath(project_path, p.operations[n].output_path))
              /\ n - 1 < p.active_op_index
           THEN <<<<"Active operation output missing", n - 1>>>>
           ELSE <<>> )

\* for i, op in enumerate(operations): the entries appended to issues.
RECURSIVE OperationIssues(_, _, _)
OperationIssues(p, fs, n) ==
    IF n = 0 THEN <<>>
    ELSE OperationIssues(p, fs, n - 1) \o
         ( IF /\ ~exists(fs, joinpath(project_path, p.operations[n].output_path))
              /\ n - 1 <= p.active_op_index
           THEN <<<<"Active operation output missing", n - 1>>>>
           ELSE <<>> )

\* for i, op in enumerate(operations): the entries appended to warnings.
RECURSIVE OperationWarnings(_, _, _)
OperationWarnings(p, fs, n) ==
    IF n = 0 THEN <<>>
    ELSE OperationWarnings(p, fs, n - 1) \o
         ( IF /\ ~exists(fs, joinpath(project_path, p.operations[n].output_path))
              /\ ~(n - 1 <= p.active_op_index)
           THEN <<<<"Future operation output missing", n - 1>>>>
           ELSE <<>> )

check_project_health(p, fs) ==
    LET issues ==
            ( IF p.operations # <<>> /\ p.active_op_index >= Len(p.operations)
              THEN <<<<"active_op_index >= operation count", p.active_op_index>>>>
              ELSE <<>> )
            \o OperationIssues(p, fs, Len(p.operations))
        warnings ==
            MissingFileWarnings(p.source_images, "original_path", fs,
                                "Source image missing", Len(p.source_images))
            \o MissingFileWarnings(p.layers, "layer_path", fs,
                                   "Layer file missing", Len(p.layers))
            \o OperationWarnings(p, fs, Len(p.operations))
            \o ( IF /\ Truthy(p.active_composite_path)
                    /\ ~exists(fs, joinpath(project_path,
                                            p.active_composite_path))
                 THEN <<<<"Composite missing", p.active_composite_path>>>>
                 ELSE <<>> )
    IN  [healthy |-> Len(issues) = 0, issues |-> issues, warnings |-> warnings]

----------------------------------------------------------------------------
(* core/renderer.py *)

\* The bitmap an operation record stands for: output_layer_path if it is
\* set, otherwise the legacy output_path.
OperationBitmap(op) ==
    IF Truthy(op.output_layer_path) THEN op.output_layer_path
    ELSE op.output_path

\* The indexes of range(active_op_index + 1) that are indexes of the
\* history and whose operation has this layer as its input.
LayerOperations(p, layer) ==
    {i \in 0..p.active_op_index :
        /\ i < Len(p.operations)
        /\ At(p.operations, i).input_layer_id = layer.id}

\* get_layer_bitmap_path that takes the first operation on the layer
get_layer_bitmap_path_first(p, layer, fs) ==
    LET on_layer == LayerOperations(p, layer)
        latest_op_path ==
            IF on_layer = {} THEN None
            ELSE OperationBitmap(
                     At(p.operations,
                        CHOOSE i \in on_layer : \A j \in on_layer : i <= j))
        bitmap_path ==
            IF Truthy(latest_op_path)
            THEN joinpath(project_path, latest_op_path)
            ELSE joinpath(project_path, layer.layer_path)
    IN  IF exists(fs, bitmap_path) THEN bitmap_path ELSE None

\* get_layer_bitmap_path without the test op.input_layer_id == layer.id
get_layer_bitmap_path_any_layer(p, layer, fs) ==
    LET on_layer == {i \in 0..p.active_op_index : i < Len(p.operations)}
        latest_op_path ==
            IF on_layer = {} THEN None
            ELSE OperationBitmap(
                     At(p.operations,
                        CHOOSE i \in on_layer : \A j \in on_layer : i >= j))
        bitmap_path ==
            IF Truthy(latest_op_path)
            THEN joinpath(project_path, latest_op_path)
            ELSE joinpath(project_path, layer.layer_path)
    IN  IF exists(fs, bitmap_path) THEN bitmap_path ELSE None

\* The loop keeps the path of the last operation on the layer; the layer's
\* own path is used when there is none.  None when the file is not there.
get_layer_bitmap_path(p, layer, fs) ==
    LET on_layer == LayerOperations(p, layer)
        latest_op_path ==
            IF on_layer = {} THEN None
            ELSE OperationBitmap(
                     At(p.operations,
                        CHOOSE i \in on_layer : \A j \in on_layer : i >= j))
        bitmap_path ==
            IF Truthy(latest_op_path)
            THEN joinpath(project_path, latest_op_path)
            ELSE joinpath(project_path, layer.layer_path)
    IN  IF exists(fs, bitmap_path) THEN bitmap_path ELSE None

\* What render_project gives: the value returned, the exception raised,
\* the object and the disk afterwards.
Rendered(ret, raised, p, fs) ==
    [ret |-> ret, raised |-> raised, state |-> p, files |-> fs]

\* What canvas.paste leaves of a layer: which bitmap, where, how opaque.
Pasted(layer, bitmap_path) ==
    [layer |-> layer.id, bitmap |-> bitmap_path, opacity |-> layer.opacity,
     x |-> layer.x, y |-> layer.y]

\* CompositedLayers that goes through the layers in list order
CompositedLayers_list_order(p, fs) ==
    LET Composited(n) ==
            /\ p.layers[n].visible
            /\ get_layer_bitmap_path(p, p.layers[n], fs) # None
            /\ fs[get_layer_bitmap_path(p, p.layers[n], fs)].kind = "image"
    IN  SelectSeq([n \in 1..Len(p.layers) |-> n], Composited)

\* The list positions, bottom to top, of the layers the loop pastes: the
\* visible ones whose bitmap is found and can be decoded by load_image.
CompositedLayers(p, fs) ==
    LET Composited(n) ==
            /\ p.layers[n].visible
            /\ get_layer_bitmap_path(p, p.layers[n], fs) # None
            /\ fs[get_layer_bitmap_path(p, p.layers[n], fs)].kind = "image"
    IN  SelectSeq(get_sorted_layers(p), Composited)

\* render_project that writes the composite before it looks at the layers
render_project_writes_first(p, fs) ==
    LET drawn == CompositedLayers(p, fs)
        canvas == Image(p.canvas_width, p.canvas_height,
                        [k \in 1..Len(drawn) |->
                            Pasted(p.layers[drawn[k]],
                                   get_layer_bitmap_path(
                                       p, p.layers[drawn[k]], fs))])
        written == save_png(fs, joinpath(project_path, composite_png), canvas)
    IN  IF p.layers = <<>> THEN Rendered(None, "ValueError", p, written)
        ELSE IF get_visible_layer_count(p) = 0
        THEN Rendered(None, "ValueError", p, written)
        ELSE Rendered(composite_png, "",
                      [p EXCEPT !.active_composite_path = composite_png],
                      written)

\* render_project, for a canvas of positive size.
render_project(p, fs) ==
    IF p.layers = <<>> THEN Rendered(None, "ValueError", p, fs)
    ELSE IF get_visible_layer_count(p) = 0
    THEN Rendered(None, "ValueError", p, fs)
    ELSE LET drawn == CompositedLayers(p, fs)
             canvas == Image(p.canvas_width, p.canvas_height,
                             [k \in 1..Len(drawn) |->
                                 Pasted(p.layers[drawn[k]],
                                        get_layer_bitmap_path(
                                            p, p.layers[drawn[k]], fs))])
         IN  Rendered(composite_png, "",
                      [p EXCEPT !.active_composite_path = composite_png],
                      save_png(fs, joinpath(project_path, composite_png),
                               canvas))

----------------------------------------------------------------------------
(* imaging/color.py.  A colour string is a sequence of one-character       *)
(* strings; a function gives [ret, raised].                                *)

Returned(ret, raised) == [ret |-> ret, raised |-> raised]

DecDigits == <<"0", "1", "2", "3", "4", "5", "6", "7", "8", "9">>

HexDigitsUpper == DecDigits \o <<"A", "B", "C", "D", "E", "F">>

HexDigitsLower == DecDigits \o <<"a", "b", "c", "d", "e", "f">>

\* The digits of a base, and the value of one of them.
IsDigit(c, base) ==
    \E i \in 1..base : HexDigitsUpper[i] = c \/ HexDigitsLower[i] = c

DigitValue(c) ==
    (CHOOSE i \in 1..16 : HexDigitsUpper[i] = c \/ HexDigitsLower[i] = c) - 1

\* The value of the digits s[1..n] in a base.
RECURSIVE DigitsValue(_, _, _)
DigitsValue(s, base, n) ==
    IF n = 0 THEN 0
    ELSE DigitsValue(s, base, n - 1) * base + DigitValue(s[n])

\* s.strip()
RECURSIVE strip(_)
strip(s) ==
    IF s = <<>> THEN s
    ELSE IF s[1] = " " THEN strip(Tail(s))
    ELSE IF s[Len(s)] = " " THEN strip(SubSeq(s, 1, Len(s) - 1))
    ELSE s

\* s.split(sep)
RECURSIVE split(_, _)
split(s, sep) ==
    LET at == {i \in 1..Len(s) : s[i] = sep}
    IN  IF at = {} THEN <<s>>
        ELSE LET i == CHOOSE k \in at : \A j \in at : k <= j
             IN  <<SubSeq(s, 1, i - 1)>> \o split(SubSeq(s, i + 1, Len(s)), sep)

\* int(s, base): an optional sign and at least one digit, blanks around
\* them; ValueError otherwise.
int(s, base) ==
    LET t == strip(s)
        signed == t # <<>> /\ t[1] \in {"+", "-"}
        digits == IF signed THEN Tail(t) ELSE t
    IN  IF digits = <<>> \/ \E i \in 1..Len(digits) : ~IsDigit(digits[i], base)
        THEN Returned(None, "ValueError")
        ELSE Returned(IF signed /\ t[1] = "-"
                      THEN 0 - DigitsValue(digits, base, Len(digits))
                      ELSE DigitsValue(digits, base, Len(digits)), "")

\* str(n) of an integer
RECURSIVE str(_)
str(n) ==
    IF n < 0 THEN <<"-">> \o str(0 - n)
    ELSE IF n < 10 THEN <<DecDigits[n + 1]>>
    ELSE str(n \div 10) \o <<DecDigits[(n % 10) + 1]>>

\* re.match(r"^[0-9A-Fa-f]{6}$", s)
MatchesHex6(s) == Len(s) = 6 /\ \A i \in 1..6 : IsDigit(s[i], 16)

hex_to_rgb(hex_color) ==
    LET stripped == strip(hex_color)
        digits == IF startswith(stripped, <<"#">>) THEN Tail(stripped)
                  ELSE stripped
    IN  IF ~MatchesHex6(digits) THEN Returned(None, "ValueError")
        ELSE Returned(<<int(SubSeq(digits, 1, 2), 16).ret,
                        int(SubSeq(digits, 3, 4), 16).ret,
                        int(SubSeq(digits, 5, 6), 16).ret>>, "")

\* f"{v:02X}" for 0 <= v <= 255
Format02X(v) == <<HexDigitsUpper[(v \div 16) + 1], HexDigitsUpper[(v % 16) + 1]>>

rgb_to_hex(r, g, b) ==
    IF ~(\A v \in {r, g, b} : 0 <= v /\ v <= 255)
    THEN Returned(None, "ValueError")
    ELSE Returned(<<"#">> \o Format02X(r) \o Format02X(g) \o Format02X(b), "")

\* parse_color that takes any three integers
parse_color_any_integers(color_input) ==
    LET s == strip(color_input)
        parts == split(s, ",")
    IN  IF startswith(s, <<"#">>) \/ MatchesHex6(s) THEN hex_to_rgb(s)
        ELSE IF Len(parts) = 3
        THEN LET rgb == [k \in 1..3 |-> int(strip(parts[k]), 10)]
             IN  IF \E k \in 1..3 : rgb[k].raised # ""
                 THEN Returned(None, "ValueError")
                 ELSE Returned(<<rgb[1].ret, rgb[2].ret, rgb[3].ret>>, "")
        ELSE Returned(None, "ValueError")

parse_color(color_input) ==
    LET s == strip(color_input)
        parts == split(s, ",")
    IN  IF startswith(s, <<"#">>) \/ MatchesHex6(s) THEN hex_to_rgb(s)
        ELSE IF Len(parts) > 1 /\ Len(parts) = 3
        THEN LET rgb == [k \in 1..3 |-> int(strip(parts[k]), 10)]
             IN  IF \E k \in 1..3 : rgb[k].raised # ""
                 THEN Returned(None, "ValueError")
                 ELSE IF \A k \in 1..3 : 0 <= rgb[k].ret /\ rgb[k].ret <= 255
                 THEN Returned(<<rgb[1].ret, rgb[2].ret, rgb[3].ret>>, "")
                 ELSE Returned(None, "ValueError")
        ELSE Returned(None, "ValueError")

----------------------------------------------------------------------------
(* core/services.py and storage/workspace.py: the commands.  Each loads    *)
(* the document, works on the object and saves it; it gives the value      *)
(* returned, the exception raised, the object, the document and the disk   *)
(* afterwards, and the bitmap it read as its input.                        *)

Served(ret, raised, p, doc, fs, read) ==
    [ret |-> ret, raised |-> raised, state |-> p, document |-> doc,
     files |-> fs, read |-> read]

\* str(uuid.uuid4()): an id no record of the object carries and no file on
\* the disk is named after.
OpIds == <<<<"a">>, <<"b">>, <<"a", "b">>, <<"b", "a">>, <<"c">>, <<"d">>>>

FreshOpId(p, fs) ==
    LET Free(k) ==
            /\ \A n \in 1..Len(p.operations) : p.operations[n].id # OpIds[k]
            /\ ~exists(fs, joinpath(project_path, <<"o", "/">> \o OpIds[k]))
    IN  OpIds[CHOOSE k \in 1..Len(OpIds) :
                  Free(k) /\ \A j \in 1..k - 1 : ~Free(j)]

\* The end of apply_color_replace_operation: the composite was rendered
\* for the object with the record added; the project is saved when that
\* raised nothing.
SaveApplied(rendered, operation, added, repaired, written, input_path) ==
    IF rendered.raised # ""
    THEN Served(None, rendered.raised, added, repaired, written, input_path)
    ELSE Served(operation, "", rendered.state, to_dict(rendered.state),
                rendered.files, input_path)

\* From the input image on: the result is written as the output of a new
\* record, the record added, the composite rendered.
RecordOperation(p, repaired, fs, input_path, operation, now) ==
    SaveApplied(
        render_project(
            add_operation(p, operation, now),
            save_png(fs, joinpath(project_path, operation.output_path),
                     Image(8, 8, <<>>))),
        operation,
        add_operation(p, operation, now),
        repaired,
        save_png(fs, joinpath(project_path, operation.output_path),
                 Image(8, 8, <<>>)),
        input_path)

\* From the repaired object r.state on: it is saved when something was
\* repaired; the input is the active operation's output_path, the base
\* layer's bitmap when the cursor is at -1.
ApplyToRepaired(r, doc, fs, now) ==
    LET p == r.state
        repaired == IF r.ret # <<>> THEN to_dict(p) ELSE doc
        base_layer == p.layers[1]
        active_op == At(p.operations, p.active_op_index)
        input_path ==
            IF p.active_op_index >= 0
            THEN joinpath(project_path, active_op.output_path)
            ELSE joinpath(project_path, base_layer.layer_path)
        input_layer_id ==
            IF p.active_op_index >= 0 THEN active_op.input_layer_id
            ELSE base_layer.id
    IN  IF p.layers = <<>>
        THEN Served(None, "ValueError", p, repaired, fs, None)
        ELSE IF ~exists(fs, input_path)
        THEN Served(None, "ValueError", p, repaired, fs, None)
        ELSE IF fs[input_path].kind # "image"
        THEN Served(None, "OSError", p, repaired, fs, input_path)
        ELSE RecordOperation(
                 p, repaired, fs, input_path,
                 [OperationRecord_create(FreshOpId(p, fs), input_layer_id)
                  EXCEPT !.note = <<"R">>],
                 now)

\* The colours are parsed, the project is loaded and repaired, and the
\* rest follows.
apply_color_replace_operation(doc, fs, target_color, new_color, now) ==
    IF \/ parse_color(target_color).raised # ""
       \/ parse_color(new_color).raised # ""
    THEN Served(None, "ValueError", from_dict(doc), doc, fs, None)
    ELSE ApplyToRepaired(
             validate_and_repair_project_state(from_dict(doc), fs, now),
             doc, fs, now)

\* From the repaired object p on, for undo_operation that renders before
\* it looks at the cursor
UndoRepaired_renders_first(p, doc, fs, now) ==
    LET rendered == render_project(undo(p, now).state, fs)
    IN  IF rendered.raised # ""
        THEN Served(None, rendered.raised, undo(p, now).state, doc, fs, None)
        ELSE IF ~can_undo(p) THEN Served(FALSE, "", p, doc, fs, None)
        ELSE Served(TRUE, "", rendered.state, to_dict(rendered.state),
                    rendered.files, None)

\* From the repaired object p on (the repairs are not saved): False when
\* there is nothing to undo; else the cursor moves, the composite is
\* rendered and the project saved.
UndoRepaired(p, doc, fs, now) ==
    LET rendered == render_project(undo(p, now).state, fs)
    IN  IF ~can_undo(p) THEN Served(FALSE, "", p, doc, fs, None)
        ELSE IF rendered.raised # ""
        THEN Served(None, rendered.raised, undo(p, now).state, doc, fs, None)
        ELSE Served(TRUE, "", rendered.state, to_dict(rendered.state),
                    rendered.files, None)

undo_operation(doc, fs, now) ==
    UndoRepaired(
        validate_and_repair_project_state(from_dict(doc), fs, now).state,
        doc, fs, now)

RedoRepaired(p, doc, fs, now) ==
    LET rendered == render_project(redo(p, now).state, fs)
    IN  IF ~can_redo(p) THEN Served(FALSE, "", p, doc, fs, None)
        ELSE IF rendered.raised # ""
        THEN Served(None, rendered.raised, redo(p, now).state, doc, fs, None)
        ELSE Served(TRUE, "", rendered.state, to_dict(rendered.state),
                    rendered.files, None)

redo_operation(doc, fs, now) ==
    RedoRepaired(
        validate_and_repair_project_state(from_dict(doc), fs, now).state,
        doc, fs, now)

\* WorkspaceManager.create_project for names of valid slugs: the
\* directories are made if they are not there, and _write_project_metadata
\* saves ProjectState.create_new(...) as the project's document.
create_project(doc, fs, now) ==
    Served(project_path, "", create_new(now), to_dict(create_new(now)), fs,
           None)

----------------------------------------------------------------------------
(* The calls, as actions on the object *)

\* What `last` keeps of a call: its name, argument and outcome, and the
\* cursor and history length the object had when the call was made.
Call(op, arg, ret, raised) ==
    [op |-> op, arg |-> arg, ret |-> ret, raised |-> raised,
     pre_active |-> project_state.active_op_index,
     pre_len |-> Len(project_state.operations)]

\* The service commands that can be under way at once, and what is known
\* of each: where it is (idle, loaded, done, failed), its object, the id of
\* the record it appended, and the records other commands saved since it
\* loaded.
Commands == {1, 2}

NoCommands ==
    [c \in Commands |->
        [pc |-> "idle", state |-> create_new(0), added |-> None,
         missed |-> {}]]

NoLaw == [phase |-> "none", n |-> 0, k |-> 0, j |-> 0,
          active |-> -1, operations |-> <<>>]

Init ==
    /\ clock = 0
    /\ commands = NoCommands
    /\ project_state = create_new(0)
    /\ document = to_dict(create_new(0))
    /\ last = [op |-> "create_new", arg |-> None, ret |-> None, raised |-> "",
               pre_active |-> -1, pre_len |-> 0]
    /\ law = NoLaw
    /\ files = NoFiles

AddLayer ==
    /\ clock < MaxClock
    /\ Len(project_state.layers) < MaxLayers
    /\ LET id == LayerIds[Len(project_state.layers) + 1]
       IN  /\ project_state' = add_layer(project_state, Layer_create(id), clock + 1)
           /\ last' = Call("add_layer", id, None, "")
    /\ clock' = clock + 1
    /\ law' = NoLaw
    /\ UNCHANGED <<document, files, commands>>

\* `law` follows a run of n add_operation calls, then k <= n successful
\* undo calls, then j <= k successful redo calls, and holds the cursor and
\* the history as they were after the last add_operation.
AddOperation ==
    \E id \in IdStrings :
        /\ clock < MaxClock
        /\ project_state.active_op_index + 1 < MaxOps
        /\ LET x == OperationRecord_create(id, LayerIds[1])
           IN  /\ project_state' = add_operation(project_state, x, clock + 1)
               /\ last' = Call("add_operation", x, None, "")
        /\ clock' = clock + 1
        /\ law' = [phase |-> "add",
                   n |-> IF law.phase = "add" THEN law.n + 1 ELSE 1,
                   k |-> 0, j |-> 0,
                   active |-> project_state'.active_op_index,
                   operations |-> project_state'.operations]
        /\ UNCHANGED <<document, files, commands>>

Undo ==
    LET r == undo(project_state, clock + 1)
    IN  /\ r.ret => clock < MaxClock
        /\ project_state' = r.state
        /\ clock' = IF r.ret THEN clock + 1 ELSE clock
        /\ last' = Call("undo", None, r.ret, r.raised)
        /\ law' = IF r.ret /\ law.phase \in {"add", "undo"} /\ law.k < law.n
                  THEN [law EXCEPT !.phase = "undo", !.k = @ + 1]
                  ELSE NoLaw
        /\ UNCHANGED <<document, files, commands>>

Redo ==
    LET r == redo(project_state, clock + 1)
    IN  /\ r.ret => clock < MaxClock
        /\ project_state' = r.state
        /\ clock' = IF r.ret THEN clock + 1 ELSE clock
        /\ last' = Call("redo", None, r.ret, r.raised)
        /\ law' = IF r.ret /\ law.phase \in {"undo", "redo"} /\ law.j < law.k
                  THEN [law EXCEPT !.phase = "redo", !.j = @ + 1]
                  ELSE NoLaw
        /\ UNCHANGED <<document, files, commands>>

DeleteOperation ==
    \E op_index \in -2..MaxOps :
        LET r == delete_operation(project_state, op_index, clock + 1)
        IN  /\ r.raised = "" => clock < MaxClock
            /\ project_state' = r.state
            /\ clock' = IF r.raised = "" THEN clock + 1 ELSE clock
            /\ last' = Call("delete_operation", op_index, r.ret, r.raised)
            /\ law' = NoLaw
            /\ UNCHANGED <<document, files, commands>>

GetOperationById ==
    \E op_id \in QueryStrings :
        LET r == get_operation_by_id(project_state, op_id)
        IN  /\ project_state' = r.state
            /\ last' = Call("get_operation_by_id", op_id, r.ret, r.raised)
            /\ UNCHANGED <<document, files, clock, law, commands>>

Next ==
    \/ AddLayer
    \/ AddOperation
    \/ Undo
    \/ Redo
    \/ DeleteOperation
    \/ GetOperationById

Spec == Init /\ [][Next]_vars

----------------------------------------------------------------------------
(* The layer stack and the persisted document *)

MoveLayerUp ==
    \E n \in 1..MaxLayers + 1 :
        LET r == move_layer_up(project_state, LayerIds[n], clock + 1)
        IN  /\ r.ret => clock < MaxClock
            /\ project_state' = r.state
            /\ clock' = IF r.ret THEN clock + 1 ELSE clock
            /\ last' = Call("move_layer_up", LayerIds[n], r.ret, r.raised)
            /\ UNCHANGED <<document, files, law, commands>>

MoveLayerDown ==
    \E n \in 1..MaxLayers + 1 :
        LET r == move_layer_down(project_state, LayerIds[n], clock + 1)
        IN  /\ r.ret => clock < MaxClock
            /\ project_state' = r.state
            /\ clock' = IF r.ret THEN clock + 1 ELSE clock
            /\ last' = Call("move_layer_down", LayerIds[n], r.ret, r.raised)
            /\ UNCHANGED <<document, files, law, commands>>

\* ProjectState.save: json.dump(self.to_dict())
Save ==
    /\ document' = to_dict(project_state)
    /\ last' = Call("save", None, None, "")
    /\ UNCHANGED <<project_state, files, clock, law, commands>>

\* ProjectState.load: from_dict(json.load(f))
Load ==
    /\ project_state' = from_dict(document)
    /\ last' = Call("load", None, None, "")
    /\ law' = NoLaw
    /\ UNCHANGED <<document, files, clock, commands>>

\* Opacities asked for: below the range, inside it, above it.
Opacities == {-50, 50, 150}

SetLayerOpacity ==
    \E n \in 1..MaxLayers + 1, opacity \in Opacities :
        LET r == set_layer_opacity(project_state, LayerIds[n], opacity,
                                   clock + 1)
        IN  /\ r.ret => clock < MaxClock
            /\ project_state' = r.state
            /\ clock' = IF r.ret THEN clock + 1 ELSE clock
            /\ last' = Call("set_layer_opacity",
                            <<LayerIds[n], opacity>>, r.ret, r.raised)
            /\ UNCHANGED <<document, files, law, commands>>

NormalizeLayerOrder ==
    /\ clock < MaxClock
    /\ project_state' = normalize_layer_order(project_state, clock + 1)
    /\ clock' = clock + 1
    /\ last' = Call("normalize_layer_order", None, None, "")
    /\ UNCHANGED <<document, files, law, commands>>

NextLayers ==
    \/ AddLayer
    \/ MoveLayerUp
    \/ MoveLayerDown
    \/ NormalizeLayerOrder
    \/ Save
    \/ Load

SpecLayers == Init /\ [][NextLayers]_vars

\* The layers' opacity on its own.
NextOpacity ==
    \/ AddLayer
    \/ SetLayerOpacity

SpecOpacity == Init /\ [][NextOpacity]_vars

----------------------------------------------------------------------------
(* The repair pass on what a project directory can hold.  A project is     *)
(* opened from a directory the program does not control: project.json may  *)
(* carry any cursor and any paths, and any of the files it names may be    *)
(* gone.                                                                   *)

\* How a document spells its paths: relative to the project directory,
\* absolute below it, absolute somewhere else.
PathStyles == {"rel", "abs", "out"}

StyledPath(style, rel) ==
    CASE style = "rel" -> rel
      [] style = "abs" -> project_path \o <<"/">> \o rel
      [] style = "out" -> <<"/", "x", "/">> \o rel

RepairOpIds == <<<<"a">>, <<"b">>, <<"a", "b">>, <<"b", "a">>>>

\* A document with nops operations and nlayers layers: the first source
\* image, layer and operation carry paths in the given style; the layers'
\* orders are all 1 (legacy) or their list positions; the first operation
\* may name an output_layer_path.
RepairDocument(nops, nlayers, active, style, legacy, with_layer_path, canvas, composite) ==
    to_dict(
        [create_new(0) EXCEPT
            !.source_images =
                IF nlayers = 0 THEN <<>>
                ELSE <<SourceImage_create(
                           <<"S">>, StyledPath(style, <<"s", "/", "S">>))>>,
            !.layers =
                [n \in 1..nlayers |->
                    [Layer_create(LayerIds[n]) EXCEPT
                        !.layer_path = IF n = 1 THEN StyledPath(style, @)
                                       ELSE @,
                        !.order = IF legacy THEN 1 ELSE n - 1]],
            !.operations =
                [n \in 1..nops |->
                    [OperationRecord_create(RepairOpIds[n], LayerIds[1]) EXCEPT
                        !.output_path = IF n = 1 THEN StyledPath(style, @)
                                        ELSE @,
                        !.output_layer_path =
                            IF n = 1 /\ with_layer_path
                            THEN <<"l", "/">> \o RepairOpIds[n] ELSE @]],
            !.active_op_index = active,
            !.canvas_width = canvas,
            !.canvas_height = canvas,
            !.active_composite_path = composite])

\* The files the repair pass looks for, as absolute paths: the first
\* layer's bitmap, the operations' outputs, the composite.
ReferencedFiles(p) ==
    {joinpath(project_path, p.layers[n].layer_path) :
        n \in 1..Min(1, Len(p.layers))}
    \cup {joinpath(project_path, p.operations[n].output_path) :
             n \in 1..Len(p.operations)}
    \cup {joinpath(project_path, p.operations[n].output_layer_path) :
             n \in {m \in 1..Len(p.operations) :
                       Truthy(p.operations[m].output_layer_path)}}
    \cup {joinpath(project_path, p.active_composite_path) :
             n \in {m \in {1} : Truthy(p.active_composite_path)}}

\* A disk holding the files `present`; the files `junk` are not images.
Disk(present, junk) ==
    [q \in present |-> IF q \in junk THEN Junk ELSE Image(8, 8, <<>>)]

InitRepair ==
    /\ clock = 0
    /\ commands = NoCommands
    /\ law = NoLaw
    /\ last = [op |-> "load", arg |-> None, ret |-> None, raised |-> "",
               pre_active |-> -1, pre_len |-> 0]
    /\ \E nops \in 0..MaxRepairOps, nlayers \in 0..MaxLayers,
          style \in PathStyles, legacy \in BOOLEAN,
          with_layer_path \in BOOLEAN, canvas \in {0, 1024},
          composite \in {None, composite_png} :
          \E active \in {-3, nops + 1} \cup (-1..nops - 1) :
              /\ document = RepairDocument(nops, nlayers, active, style,
                                           legacy, with_layer_path, canvas,
                                           composite)
              /\ project_state = from_dict(document)
    /\ \E present \in SUBSET ReferencedFiles(project_state) :
          \E junk \in {{}} \cup
                      {{joinpath(project_path,
                                 project_state.layers[n].layer_path)} :
                          n \in 1..Min(1, Len(project_state.layers))} :
              files = Disk(present, junk)

\* validate_and_repair_project_state(project_state, project_path)
ValidateAndRepair ==
    LET r == validate_and_repair_project_state(project_state, files, clock + 1)
    IN  /\ r.ret # <<>> => clock < MaxRepairCalls
        /\ project_state' = r.state
        /\ clock' = IF r.ret # <<>> THEN clock + 1 ELSE clock
        /\ last' = Call("validate_and_repair_project_state", None,
                        r.ret, r.raised)
        /\ UNCHANGED <<document, files, law, commands>>

NextRepair == ValidateAndRepair

SpecRepair == InitRepair /\ [][NextRepair]_vars

----------------------------------------------------------------------------
(* The health check on what a project directory can hold. *)

\* check_project_health(project_state, project_path)
CheckProjectHealth ==
    /\ last' = Call("check_project_health", None,
                    check_project_health(project_state, files), "")
    /\ UNCHANGED <<project_state, document, files, clock, law, commands>>

NextHealth == CheckProjectHealth

SpecHealth == InitRepair /\ [][NextHealth]_vars

----------------------------------------------------------------------------
(* The compositor on a project with layers shown or hidden, a history of   *)
(* operations on the first two layers, and a directory from which any of   *)
(* the bitmaps may be gone.                                                *)

\* A project whose layer n is shown when visible[n]; operation n is on the
\* layer numbered inputs[n] (the first operation on the first layer); the
\* first operation may name an output_layer_path.
RenderState(visible, inputs, with_layer_path, active) ==
    [create_new(0) EXCEPT
        !.layers =
            [n \in DOMAIN visible |->
                [Layer_create(LayerIds[n]) EXCEPT
                    !.visible = visible[n], !.order = n - 1]],
        !.operations =
            [n \in DOMAIN inputs |->
                [OperationRecord_create(RepairOpIds[n], LayerIds[inputs[n]])
                 EXCEPT !.output_layer_path =
                            IF n = 1 /\ with_layer_path
                            THEN <<"l", "/">> \o RepairOpIds[n] ELSE @]],
        !.active_op_index = active]

\* The bitmaps the compositor can look for, as absolute paths: the layers'
\* own and those of the operations up to the active one.
BitmapFiles(p) ==
    {joinpath(project_path, p.layers[n].layer_path) : n \in 1..Len(p.layers)}
    \cup {joinpath(project_path, OperationBitmap(p.operations[n])) :
             n \in 1..p.active_op_index + 1}

InitRender ==
    /\ clock = 0
    /\ commands = NoCommands
    /\ law = NoLaw
    /\ last = [op |-> "load", arg |-> None, ret |-> None, raised |-> "",
               pre_active |-> -1, pre_len |-> 0]
    /\ \E nlayers \in 0..MaxLayers, nops \in 0..MaxRenderOps,
          with_layer_path \in BOOLEAN :
          \E visible \in [1..nlayers -> BOOLEAN],
             inputs \in [1..nops -> 1..2],
             active \in -1..nops - 1 :
              /\ nops > 0 => inputs[1] = 1
              /\ project_state =
                     RenderState(visible, inputs, with_layer_path, active)
    /\ document = to_dict(project_state)
    /\ \E present \in SUBSET BitmapFiles(project_state) :
          \E junk \in {{}, {joinpath(project_path,
                                      Layer_create(LayerIds[1]).layer_path)}} :
              files = Disk(present, junk)

\* render_project(project_state, project_path)
RenderProject ==
    LET r == render_project(project_state, files)
    IN  /\ project_state' = r.state
        /\ files' = r.files
        /\ last' = Call("render_project", None, r.ret, r.raised)
        /\ UNCHANGED <<document, clock, law, commands>>

\* get_layer_bitmap_path(project_state, layer, project_path)
GetLayerBitmapPath ==
    \E n \in 1..Len(project_state.layers) :
        /\ last' = Call("get_layer_bitmap_path", project_state.layers[n].id,
                        get_layer_bitmap_path(project_state,
                                              project_state.layers[n], files),
                        "")
        /\ UNCHANGED <<project_state, document, files, clock, law, commands>>

NextRender ==
    \/ RenderProject
    \/ GetLayerBitmapPath

SpecRender == InitRender /\ [][NextRender]_vars

----------------------------------------------------------------------------
(* The histories of the layers: the cursor moved back and forth over       *)
(* operations on the first two layers, the bitmaps as they are on the disk. *)

NextLayerHistory ==
    \/ Undo
    \/ Redo

SpecLayerHistory == InitRender /\ [][NextLayerHistory]_vars

----------------------------------------------------------------------------
(* The compositor on layer stacks in any order: orders that run against    *)
(* the list, orders that tie, layers of different opacity and position,    *)
(* bitmaps that are missing or cannot be decoded.                          *)

\* A project whose layer n is shown when visible[n] and has order
\* orders[n]; the layers differ in opacity and position; nops operations
\* on the first layer.
PaintState(visible, orders, nops, active) ==
    [create_new(0) EXCEPT
        !.layers =
            [n \in DOMAIN visible |->
                [Layer_create(LayerIds[n]) EXCEPT
                    !.visible = visible[n], !.order = orders[n],
                    !.opacity = 100 - 25 * (n - 1), !.x = n - 1]],
        !.operations =
            [n \in 1..nops |->
                OperationRecord_create(RepairOpIds[n], LayerIds[1])],
        !.active_op_index = active]

InitPaint ==
    /\ clock = 0
    /\ commands = NoCommands
    /\ law = NoLaw
    /\ last = [op |-> "load", arg |-> None, ret |-> None, raised |-> "",
               pre_active |-> -1, pre_len |-> 0]
    /\ \E nlayers \in 0..MaxLayers, nops \in 0..MaxPaintOps :
          \E visible \in [1..nlayers -> BOOLEAN],
             orders \in [1..nlayers -> 0..1],
             active \in -1..nops - 1 :
              project_state = PaintState(visible, orders, nops, active)
    /\ document = to_dict(project_state)
    /\ \E present \in SUBSET BitmapFiles(project_state) :
          \E junk \in SUBSET present : files = Disk(present, junk)

NextPaint == RenderProject

SpecPaint == InitPaint /\ [][NextPaint]_vars

----------------------------------------------------------------------------
(* Documents written by another version of the program: fields that were   *)
(* added later are not there, fields this version does not know are.       *)

\* The dict without some keys, and with one more.
Without(data, keys) == [k \in DOMAIN data \ keys |-> data[k]]

With(data, k, v) ==
    [x \in DOMAIN data \cup {k} |-> IF x = k THEN v ELSE data[x]]

\* The fields the migrations of from_dict provide for.
LaterLayerFields == {"order", "x", "y", "opacity", "visible"}

LaterOperationFields == {"output_layer_path", "note"}

LaterProjectFields == {"active_op_index", "canvas_width", "canvas_height"}

\* Where a field unknown to this version sits.
DriftPlaces == {"nowhere", "project", "layer", "operation", "source_image"}

\* A project of one source image, one layer and one operation, as written
\* without the later fields in no_*, with a field "tag" at the place.
DriftedDocument(no_project, no_layer, no_operation, place) ==
    LET Tagged(data, here) ==
            IF place = here THEN With(data, "tag", 1) ELSE data
        p == add_operation(
                 add_layer(
                     add_source_image(create_new(0),
                         SourceImage_create(<<"s">>, <<"u", "/", "s">>), 0),
                     Layer_create(LayerIds[1]), 0),
                 OperationRecord_create(RepairOpIds[1], LayerIds[1]), 0)
        d == to_dict(p)
    IN  Tagged(
            [Without(d, no_project) EXCEPT
                !.source_images =
                    <<Tagged(d.source_images[1], "source_image")>>,
                !.layers =
                    <<Tagged(Without(d.layers[1], no_layer), "layer")>>,
                !.operations =
                    <<Tagged(Without(d.operations[1], no_operation),
                             "operation")>>],
            "project")

InitDrift ==
    /\ clock = 0
    /\ commands = NoCommands
    /\ law = NoLaw
    /\ files = NoFiles
    /\ project_state = create_new(0)
    /\ last = [op |-> "create_new", arg |-> None, ret |-> None, raised |-> "",
               pre_active |-> -1, pre_len |-> 0]
    /\ \E no_project \in SUBSET LaterProjectFields,
          no_layer \in SUBSET LaterLayerFields,
          no_operation \in SUBSET LaterOperationFields,
          place \in DriftPlaces :
          document =
              DriftedDocument(no_project, no_layer, no_operation, place)

\* ProjectState.from_dict(data) on the document
FromDict ==
    LET raised == from_dict_raised(document)
    IN  /\ project_state' =
               IF raised = "" THEN from_dict(document) ELSE project_state
        /\ last' = Call("from_dict", None, None, raised)
        /\ law' = NoLaw
        /\ UNCHANGED <<document, files, clock, commands>>

NextDrift == FromDict

SpecDrift == InitDrift /\ [][NextDrift]_vars

----------------------------------------------------------------------------
(* Documents of the time before the cursor: with any history, with and     *)
(* without the field active_op_index, the field holding any value.         *)

InitMigrate ==
    /\ clock = 0
    /\ commands = NoCommands
    /\ law = NoLaw
    /\ files = NoFiles
    /\ project_state = create_new(0)
    /\ last = [op |-> "create_new", arg |-> None, ret |-> None, raised |-> "",
               pre_active |-> -1, pre_len |-> 0]
    /\ \E nops \in 0..MaxRepairOps, nlayers \in 0..MaxLayers,
          legacy \in BOOLEAN, with_layer_path \in BOOLEAN,
          composite \in {None, composite_png}, with_cursor \in BOOLEAN :
          \E active \in {-3, nops + 1} \cup (-1..nops - 1) :
              document =
                  LET d == RepairDocument(nops, nlayers, active, "rel",
                                          legacy, with_layer_path, 1024,
                                          composite)
                  IN  IF with_cursor THEN d
                      ELSE Without(d, {"active_op_index"})

NextMigrate == FromDict

SpecMigrate == InitMigrate /\ [][NextMigrate]_vars

----------------------------------------------------------------------------
(* The layer stack through the service: images imported one after the      *)
(* other, layers moved and deleted, the project saved and opened again.    *)

\* str(uuid.uuid4()): the first id no layer of the object carries.
FreshLayerId(p) ==
    LayerIds[CHOOSE k \in 1..Len(LayerIds) :
                 /\ \A n \in 1..Len(p.layers) : p.layers[n].id # LayerIds[k]
                 /\ \A j \in 1..k - 1 :
                        \E n \in 1..Len(p.layers) : p.layers[n].id = LayerIds[j]]

\* ProjectService.load_project: ProjectState.load, the repair pass, and a
\* save when something was repaired.
LoadProject ==
    LET r == validate_and_repair_project_state(from_dict(document), files,
                                               clock + 1)
    IN  /\ r.ret # <<>> => clock < MaxClock
        /\ project_state' = r.state
        /\ document' = IF r.ret # <<>> THEN to_dict(r.state) ELSE document
        /\ clock' = IF r.ret # <<>> THEN clock + 1 ELSE clock
        /\ last' = Call("load_project", None, r.ret, r.raised)
        /\ law' = NoLaw
        /\ UNCHANGED <<files, commands>>

\* ProjectService.import_image of an image PIL can read: the project is
\* loaded and repaired, the image copied to source_uploads and written as
\* the new layer's bitmap, the source image and the layer (order 0) added,
\* the project saved.
ImportImage ==
    /\ clock < MaxClock
    /\ LET r == validate_and_repair_project_state(from_dict(document), files,
                                                  clock + 1)
           id == FreshLayerId(r.state)
           source_image == SourceImage_create(id, <<"s", "/">> \o id)
           layer == [Layer_create(id) EXCEPT !.source_image_id = id]
           p == add_layer(add_source_image(r.state, source_image, clock + 1),
                          layer, clock + 1)
       IN  /\ Len(r.state.layers) < MaxLayers + 1
           /\ project_state' = p
           /\ document' = to_dict(p)
           /\ files' = save_png(
                           save_png(files,
                                    joinpath(project_path,
                                             source_image.original_path),
                                    Image(8, 8, <<>>)),
                           joinpath(project_path, layer.layer_path),
                           Image(8, 8, <<>>))
           /\ last' = Call("import_image", id, <<source_image, layer>>, "")
    /\ clock' = clock + 1
    /\ law' = NoLaw
    /\ UNCHANGED commands

DeleteLayer ==
    \E n \in 1..MaxLayers + 1 :
        LET r == delete_layer(project_state, LayerIds[n], clock + 1)
            found == get_layer_index(project_state, LayerIds[n]) # 0
        IN  /\ found => clock < MaxClock
            /\ project_state' = r.state
            /\ clock' = IF found THEN clock + 1 ELSE clock
            /\ last' = Call("delete_layer", LayerIds[n], r.ret, r.raised)
            /\ UNCHANGED <<document, files, law, commands>>

NextStack ==
    \/ ImportImage
    \/ DeleteLayer
    \/ MoveLayerUp
    \/ MoveLayerDown
    \/ Save
    \/ LoadProject

SpecStack == Init /\ [][NextStack]_vars

----------------------------------------------------------------------------
(* The layers' fields: layers of any orders moved, shown and hidden, made   *)
(* translucent, placed, renamed and deleted.                               *)

\* Layers in list order with orders in any arrangement, tied ones too.  The
\* project was created at 0 and the clock has MaxFieldCalls ticks left.
InitLayerFields ==
    /\ clock = MaxClock - MaxFieldCalls
    /\ commands = NoCommands
    /\ law = NoLaw
    /\ last = [op |-> "load", arg |-> None, ret |-> None, raised |-> "",
               pre_active |-> -1, pre_len |-> 0]
    /\ \E nlayers \in 0..MaxLayers :
          \E orders \in [1..nlayers -> 0..nlayers - 1] :
              project_state =
                  [create_new(0) EXCEPT
                      !.layers = [n \in 1..nlayers |->
                                     [Layer_create(LayerIds[n]) EXCEPT
                                         !.order = orders[n]]]]
    /\ document = to_dict(project_state)
    /\ files = NoFiles

SetLayerVisibility ==
    \E n \in 1..MaxLayers + 1 :
        LET r == set_layer_visibility(project_state, LayerIds[n], FALSE,
                                      clock + 1)
        IN  /\ r.ret => clock < MaxClock
            /\ project_state' = r.state
            /\ clock' = IF r.ret THEN clock + 1 ELSE clock
            /\ last' = Call("set_layer_visibility", LayerIds[n], r.ret,
                            r.raised)
            /\ UNCHANGED <<document, files, law, commands>>

SetLayerPosition ==
    \E n \in 1..MaxLayers + 1 :
        LET r == set_layer_position(project_state, LayerIds[n], 5, -3,
                                    clock + 1)
        IN  /\ r.ret => clock < MaxClock
            /\ project_state' = r.state
            /\ clock' = IF r.ret THEN clock + 1 ELSE clock
            /\ last' = Call("set_layer_position", LayerIds[n], r.ret,
                            r.raised)
            /\ UNCHANGED <<document, files, law, commands>>

RenameLayer ==
    \E n \in 1..MaxLayers + 1 :
        LET r == rename_layer(project_state, LayerIds[n], "Top", clock + 1)
        IN  /\ r.ret => clock < MaxClock
            /\ project_state' = r.state
            /\ clock' = IF r.ret THEN clock + 1 ELSE clock
            /\ last' = Call("rename_layer", LayerIds[n], r.ret, r.raised)
            /\ UNCHANGED <<document, files, law, commands>>

NextLayerFields ==
    \/ MoveLayerUp
    \/ MoveLayerDown
    \/ SetLayerVisibility
    \/ SetLayerOpacity
    \/ SetLayerPosition
    \/ RenameLayer
    \/ DeleteLayer

SpecLayerFields == InitLayerFields /\ [][NextLayerFields]_vars

----------------------------------------------------------------------------
(* Colour strings as the command line hands them to the service. *)

\* Components written in hex: the ends of the range and of each digit.
HexComponents == {0, 9, 10, 15, 16, 255}

\* Components written in decimal: inside the range and just outside it.
TripletComponents == {-1, 0, 10, 255, 256}

\* parse_color(rgb_to_hex(r, g, b))
ParseColorHex ==
    \E r, g, b \in HexComponents :
        LET text == rgb_to_hex(r, g, b).ret
            c == parse_color(text)
        IN  /\ last' = Call("parse_color",
                            [form |-> "hex", text |-> text, rgb |-> <<r, g, b>>],
                            c.ret, c.raised)
            /\ UNCHANGED <<project_state, document, files, clock, law, commands>>

\* parse_color("r,g,b")
ParseColorTriplet ==
    \E r, g, b \in TripletComponents :
        LET text == str(r) \o <<",">> \o str(g) \o <<",">> \o str(b)
            c == parse_color(text)
        IN  /\ last' = Call("parse_color",
                            [form |-> "triplet", text |-> text,
                             rgb |-> <<r, g, b>>],
                            c.ret, c.raised)
            /\ UNCHANGED <<project_state, document, files, clock, law, commands>>

NextColor ==
    \/ ParseColorHex
    \/ ParseColorTriplet

SpecColor == Init /\ [][NextColor]_vars

----------------------------------------------------------------------------
(* The commands on projects as they lie on the disk: layers shown or all   *)
(* hidden, a history with the cursor anywhere, bitmaps that are missing.   *)

\* A document of nlayers layers and nops operations, operation n on layer
\* n (on the last layer when there are fewer layers).
ServiceDocument(nops, nlayers, active, visible, with_layer_path, composite) ==
    to_dict(
        [create_new(0) EXCEPT
            !.layers =
                [n \in 1..nlayers |->
                    [Layer_create(LayerIds[n]) EXCEPT
                        !.visible = visible, !.order = n - 1]],
            !.operations =
                [n \in 1..nops |->
                    [OperationRecord_create(
                         OpIds[n], LayerIds[Max(1, Min(n, nlayers))]) EXCEPT
                        !.output_layer_path =
                            IF n = 1 /\ with_layer_path
                            THEN <<"l", "/">> \o OpIds[n] ELSE @]],
            !.active_op_index = active,
            !.active_composite_path = composite])

InitService ==
    /\ clock = 0
    /\ commands = NoCommands
    /\ law = NoLaw
    /\ last = [op |-> "load", arg |-> None, ret |-> None, raised |-> "",
               pre_active |-> -1, pre_len |-> 0]
    /\ \E nops \in 0..MaxServiceOps, nlayers \in 0..MaxLayers,
          visible \in BOOLEAN, with_layer_path \in BOOLEAN,
          composite \in {None, composite_png} :
          \E active \in {nops + 1} \cup (-1..nops - 1) :
              /\ nops = 0 => ~with_layer_path
              /\ document = ServiceDocument(nops, nlayers, active, visible,
                                            with_layer_path, composite)
              /\ project_state = from_dict(document)
    /\ \E present \in SUBSET ReferencedFiles(project_state) :
          \E junk \in {{}} \cup
                      {{joinpath(project_path,
                                 project_state.layers[n].layer_path)} :
                          n \in 1..Min(1, Len(project_state.layers))} :
              /\ junk \subseteq present
              /\ Truthy(project_state.active_composite_path)
                     => joinpath(project_path, composite_png) \in present
              /\ files = Disk(present, junk)

\* The colours the command line hands over: two that parse, one that does
\* not.
ColorInputs ==
    {<<<<"#", "F", "F", "0", "0", "0", "0">>, <<"0", ",", "0", ",", "0">>>>,
     <<<<"r", "e", "d">>, <<"0", ",", "0", ",", "0">>>>}

ApplyColorReplaceOperation ==
    /\ clock < MaxServiceCalls
    /\ \E colors \in ColorInputs :
          LET s == apply_color_replace_operation(document, files, colors[1],
                                                 colors[2], clock + 1)
          IN  /\ project_state' = s.state
              /\ document' = s.document
              /\ files' = s.files
              /\ last' = Call("apply_color_replace_operation",
                              [colors |-> colors, read |-> s.read],
                              s.ret, s.raised)
    /\ clock' = clock + 1
    /\ law' = NoLaw
    /\ UNCHANGED commands

UndoOperation ==
    /\ clock < MaxServiceCalls
    /\ LET s == undo_operation(document, files, clock + 1)
       IN  /\ project_state' = s.state
           /\ document' = s.document
           /\ files' = s.files
           /\ last' = Call("undo_operation", None, s.ret, s.raised)
    /\ clock' = clock + 1
    /\ law' = NoLaw
    /\ UNCHANGED commands

RedoOperation ==
    /\ clock < MaxServiceCalls
    /\ LET s == redo_operation(document, files, clock + 1)
       IN  /\ project_state' = s.state
           /\ document' = s.document
           /\ files' = s.files
           /\ last' = Call("redo_operation", None, s.ret, s.raised)
    /\ clock' = clock + 1
    /\ law' = NoLaw
    /\ UNCHANGED commands

CreateProject ==
    /\ clock < MaxServiceCalls
    /\ LET s == create_project(document, files, clock + 1)
       IN  /\ project_state' = s.state
           /\ document' = s.document
           /\ files' = s.files
           /\ last' = Call("create_project", None, s.ret, s.raised)
    /\ clock' = clock + 1
    /\ law' = NoLaw
    /\ UNCHANGED commands

NextService ==
    \/ ApplyColorReplaceOperation
    \/ UndoOperation
    \/ RedoOperation
    \/ CreateProject

SpecService == InitService /\ [][NextService]_vars

----------------------------------------------------------------------------
(* Two commands on one project.  Nothing locks project.json: the second    *)
(* command can load it while the first has not saved yet.                  *)

\* apply_color_replace_operation from ProjectState.load to render_project:
\* everything but the last save.
LoadAndApply(c) ==
    /\ commands[c].pc = "idle"
    /\ LET now == clock + 1
           colors == <<<<"#", "F", "F", "0", "0", "0", "0">>,
                       <<"0", ",", "0", ",", "0">>>>
           s == apply_color_replace_operation(document, files, colors[1],
                                              colors[2], now)
           r == validate_and_repair_project_state(from_dict(document), files,
                                                  now)
       IN  /\ project_state' = s.state
           /\ document' = IF r.ret # <<>> THEN to_dict(r.state) ELSE document
           /\ files' = s.files
           /\ commands' =
                  [commands EXCEPT ![c] =
                      IF s.raised = ""
                      THEN [pc |-> "loaded", state |-> s.state,
                            added |-> s.ret.id, missed |-> {}]
                      ELSE [@ EXCEPT !.pc = "failed"]]
           /\ last' = Call("ProjectState.load", c, None, s.raised)
    /\ clock' = clock + 1
    /\ law' = NoLaw

\* SaveApplied that leaves a document alone that was saved after the load
SaveApplied_keeping_newer(c) ==
    /\ commands[c].pc = "loaded"
    /\ project_state' = commands[c].state
    /\ document' = IF commands[c].missed = {}
                   THEN to_dict(commands[c].state) ELSE document
    /\ commands' =
           [k \in Commands |->
               IF k = c THEN [commands[k] EXCEPT !.pc = "done"]
               ELSE IF commands[k].pc = "loaded"
               THEN [commands[k] EXCEPT
                        !.missed = @ \cup {commands[c].added}]
               ELSE commands[k]]
    /\ last' = Call("project_state.save", c, commands[c].added, "")
    /\ UNCHANGED <<files, clock, law>>

\* project_state.save(project_path) at the end of the command: the object
\* as the command has it replaces the document.
SaveAppliedState(c) ==
    /\ commands[c].pc = "loaded"
    /\ project_state' = commands[c].state
    /\ document' = to_dict(commands[c].state)
    /\ commands' =
           [k \in Commands |->
               IF k = c THEN [commands[k] EXCEPT !.pc = "done"]
               ELSE IF commands[k].pc = "loaded"
               THEN [commands[k] EXCEPT
                        !.missed = @ \cup {commands[c].added}]
               ELSE commands[k]]
    /\ last' = Call("project_state.save", c, commands[c].added, "")
    /\ UNCHANGED <<files, clock, law>>

NextRace ==
    \/ \E c \in Commands : LoadAndApply(c)
    \/ \E c \in Commands : SaveAppliedState(c)

SpecRace == InitService /\ [][NextRace]_vars

----------------------------------------------------------------------------
(* A project from its creation on: images imported, operations applied,    *)
(* undone, redone and deleted, layers deleted, the project saved.          *)

\* ProjectService.apply_color_replace_operation with two colours that
\* parse, on the project as it was last saved.
ApplyOperation ==
    /\ clock < MaxClock
    /\ Len(document.operations) < MaxOps
    /\ LET s == apply_color_replace_operation(
                    document, files, <<"#", "F", "F", "0", "0", "0", "0">>,
                    <<"0", ",", "0", ",", "0">>, clock + 1)
       IN  /\ project_state' = s.state
           /\ document' = s.document
           /\ files' = s.files
           /\ last' = Call("apply_color_replace_operation",
                           [read |-> s.read], s.ret, s.raised)
    /\ clock' = clock + 1
    /\ law' = NoLaw
    /\ UNCHANGED commands

NextHistory ==
    \/ ImportImage
    \/ ApplyOperation
    \/ Undo
    \/ Redo
    \/ DeleteOperation
    \/ DeleteLayer
    \/ Save

SpecHistory == Init /\ [][NextHistory]_vars

----------------------------------------------------------------------------
(* Properties of the operation history *)

\* The indexes i (Python values) of the operations whose id starts with s,
\* and of those whose id is s.
PrefixMatches(p, s) ==
    {i \in 0..Len(p.operations) - 1 : startswith(At(p.operations, i).id, s)}

ExactMatches(p, s) ==
    {i \in 0..Len(p.operations) - 1 : At(p.operations, i).id = s}

\* C1: in every state reached from create_new by add_operation, undo, redo
\* and delete_operation, -1 <= active_op_index <= len(operations) - 1, and
\* active_op_index = -1 when operations is empty.
C1_ActiveIndexInRange ==
    /\ -1 <= project_state.active_op_index
    /\ project_state.active_op_index <= Len(project_state.operations) - 1
    /\ Len(project_state.operations) = 0 => project_state.active_op_index = -1

\* C1 witness: delete_operation has removed an operation before the cursor
\* while the cursor was on the last record.
C1_Witness ==
    /\ last.op = "delete_operation" /\ last.raised = ""
    /\ last.arg < last.pre_active
    /\ last.pre_active = last.pre_len - 1

\* C2: add_operation(x) with cursor a leaves operations = old[0..a] + [x]
\* (the redo branch is gone, x is last), active_op_index = len - 1, and a
\* redo made right after it is a no-op.
C2_AddOperationTruncates ==
    [][ /\ last'.op = "add_operation" =>
            /\ project_state'.operations =
                   Append(SubSeq(project_state.operations, 1,
                                 project_state.active_op_index + 1), last'.arg)
            /\ project_state'.active_op_index =
                   Len(project_state'.operations) - 1
            /\ ~can_redo(project_state')
        /\ (last.op = "add_operation" /\ last'.op = "redo") =>
            /\ last'.ret = FALSE
            /\ project_state' = project_state
      ]_vars

\* C2 witness: add_operation was called with the cursor rewound by two, so
\* two records of the redo branch were discarded.
C2_Witness ==
    /\ last.op = "add_operation"
    /\ last.pre_active = last.pre_len - 3
    /\ Len(project_state.operations) = last.pre_len - 1

\* C3: after n add_operation calls, k <= n undo calls all succeed and leave
\* operations unchanged, and k redo calls after them all succeed and bring
\* active_op_index back to its value before the first undo.
C3_UndoRedoStackLaw ==
    /\ law.phase \in {"undo", "redo"} =>
           project_state.operations = law.operations
    /\ (law.phase = "redo" /\ law.j = law.k) =>
           project_state.active_op_index = law.active
    /\ (law.phase \in {"add", "undo"} /\ law.k < law.n) =>
           undo(project_state, clock + 1).ret = TRUE
    /\ (law.phase \in {"undo", "redo"} /\ law.j < law.k) =>
           redo(project_state, clock + 1).ret = TRUE

\* C3 witness: two undo calls and then two redo calls after at least two
\* add_operation calls.
C3_Witness ==
    law.phase = "redo" /\ law.k = 2 /\ law.j = 2

\* C4: undo() returns False and changes nothing when active_op_index < 0;
\* otherwise it returns True, decrements active_op_index by one and leaves
\* operations (and every field but updated_at) unchanged.
C4_UndoContract ==
    [][ last'.op = "undo" =>
            IF project_state.active_op_index < 0
            THEN /\ last'.ret = FALSE
                 /\ project_state' = project_state
            ELSE /\ last'.ret = TRUE
                 /\ project_state'.active_op_index =
                        project_state.active_op_index - 1
                 /\ project_state'.operations = project_state.operations
                 /\ [project_state' EXCEPT !.updated_at = 0] =
                    [project_state EXCEPT !.updated_at = 0,
                                          !.active_op_index = @ - 1]
      ]_vars

\* C4 witness: undo was refused on a project that has layers and
\* operations, all of them undone.
C4_Witness ==
    /\ last.op = "undo" /\ last.ret = FALSE
    /\ Len(project_state.operations) > 0
    /\ Len(project_state.layers) > 0

\* C5: redo() returns False and changes nothing when active_op_index is
\* len(operations) - 1; otherwise it returns True, increments
\* active_op_index by one and leaves operations unchanged.
C5_RedoContract ==
    [][ last'.op = "redo" =>
            IF project_state.active_op_index = Len(project_state.operations) - 1
            THEN /\ last'.ret = FALSE
                 /\ project_state' = project_state
            ELSE /\ last'.ret = TRUE
                 /\ project_state'.active_op_index =
                        project_state.active_op_index + 1
                 /\ project_state'.operations = project_state.operations
      ]_vars

\* C5 witness: redo was refused at the end of a non-empty history.
C5_Witness ==
    /\ last.op = "redo" /\ last.ret = FALSE
    /\ last.pre_len > 0
    /\ last.pre_active = last.pre_len - 1

\* C6: delete_operation(i) with 0 <= i < len(operations) and cursor a
\* removes exactly the record at i, keeps the others in order, and sets the
\* cursor to a-1 if i < a, to i-1 if i = a, and to a if i > a.
C6_DeleteOperationCursor ==
    [][ (/\ last'.op = "delete_operation"
         /\ 0 <= last'.arg
         /\ last'.arg < Len(project_state.operations)) =>
            LET i   == last'.arg
                a   == project_state.active_op_index
                old == project_state.operations
                new == project_state'.operations
            IN  /\ last'.raised = ""
                /\ last'.ret = At(old, i)
                /\ Len(new) = Len(old) - 1
                /\ \A j \in 0..Len(new) - 1 :
                       At(new, j) = At(old, IF j < i THEN j ELSE j + 1)
                /\ project_state'.active_op_index =
                       IF i < a THEN a - 1 ELSE IF i = a THEN i - 1 ELSE a
      ]_vars

\* C6 witness: the operation under the cursor was deleted while an
\* operation before it and one after it stayed.
C6_Witness ==
    /\ last.op = "delete_operation" /\ last.raised = ""
    /\ last.arg = last.pre_active
    /\ 0 < last.arg /\ last.arg < last.pre_len - 1

\* C7: delete_operation(i) with i < 0 or i >= len(operations) raises
\* IndexError and mutates nothing.
C7_DeleteOperationOutOfRange ==
    [][ (/\ last'.op = "delete_operation"
         /\ (last'.arg < 0 \/ last'.arg >= Len(project_state.operations))) =>
            /\ last'.raised = "IndexError"
            /\ project_state' = project_state
      ]_vars

\* C7 witness: delete_operation(-1), an index a Python list would accept,
\* was refused on a non-empty history.
C7_Witness ==
    /\ last.op = "delete_operation" /\ last.raised = "IndexError"
    /\ last.arg = -1
    /\ last.pre_len > 0

\* C8: get_operation_by_id(s) resolves an exact match first: when exactly
\* one operation has id s, that operation and its index are returned, also
\* when s is a proper prefix of another operation's id.
C8_ExactMatchFirst ==
    (/\ last.op = "get_operation_by_id"
     /\ Cardinality(ExactMatches(project_state, last.arg)) = 1) =>
        LET i == CHOOSE i \in ExactMatches(project_state, last.arg) : TRUE
        IN  /\ last.raised = ""
            /\ last.ret = <<i, At(project_state.operations, i)>>

\* C9: get_operation_by_id(p) returns None when no operation id starts with
\* p, the (index, operation) pair when exactly one does, and raises
\* ValueError when two or more do; it never changes the object.
C9_PrefixLookup ==
    [][ last'.op = "get_operation_by_id" =>
            LET m == PrefixMatches(project_state, last'.arg)
            IN  /\ project_state' = project_state
                /\ Cardinality(m) = 0 =>
                       last'.raised = "" /\ last'.ret = None
                /\ Cardinality(m) = 1 =>
                       /\ last'.raised = ""
                       /\ \E i \in m :
                              last'.ret = <<i, At(project_state.operations, i)>>
                /\ Cardinality(m) >= 2 => last'.raised = "ValueError"
      ]_vars

\* C9 witness: the prefix is shared by two operations with different ids,
\* neither of them equal to it.
C9_Witness ==
    /\ last.op = "get_operation_by_id" /\ last.raised = "ValueError"
    /\ ExactMatches(project_state, last.arg) = {}
    /\ \E i, j \in PrefixMatches(project_state, last.arg) :
           At(project_state.operations, i).id # At(project_state.operations, j).id

----------------------------------------------------------------------------
(* Properties of the serialisation *)

OrdersDistinct(p) ==
    \A i, j \in 1..Len(p.layers) :
        i # j => p.layers[i].order # p.layers[j].order

\* C10: from_dict(to_dict(p)) reproduces p field for field, every layer's
\* order and active_op_index included.  Stated here for the states p whose
\* layer orders are pairwise distinct, the ones the data model calls
\* normalised.
C10_RoundTrip ==
    OrdersDistinct(project_state) =>
        from_dict(to_dict(project_state)) = project_state

----------------------------------------------------------------------------
(* Properties of the repair pass *)

\* C11: a call of validate_and_repair_project_state that directly follows
\* another one on the same object, with the project directory unchanged in
\* between, returns an empty list of repairs.
C11_RepairIdempotent ==
    [][ ( /\ last.op = "validate_and_repair_project_state"
          /\ last'.op = "validate_and_repair_project_state"
          /\ files' = files )
        => last'.ret = <<>>
      ]_vars

\* C19: whatever active_op_index the object came in with, after
\* validate_and_repair_project_state has returned the cursor is at least -1
\* and at most len(operations) - 1, and it is -1 when there are no
\* operations.
C19_CursorInRangeAfterRepair ==
    last.op = "validate_and_repair_project_state" =>
        /\ -1 <= project_state.active_op_index
        /\ project_state.active_op_index <= Len(project_state.operations) - 1
        /\ project_state.operations = <<>> =>
               project_state.active_op_index = -1

\* C19 witness: the pass was given a cursor beyond the end of a history
\* that is not empty, and left it on the last operation.
C19_Witness ==
    /\ last.op = "validate_and_repair_project_state"
    /\ last.pre_len > 0
    /\ last.pre_active > last.pre_len - 1
    /\ project_state.active_op_index = last.pre_len - 1

\* The indexes, up to the cursor as step 1 clamps it, of the operations
\* whose bitmap is not on disk.
MissingBitmaps(p, fs) ==
    {i \in 0..ClampActiveOpIndex(p).state.active_op_index :
        ~exists(fs, joinpath(project_path,
                             OperationBitmap(At(p.operations, i))))}

\* C20: after validate_and_repair_project_state has returned, the bitmap
\* of every operation at an index up to active_op_index is on disk; and
\* when one of them was missing, active_op_index is m - 1 for the lowest
\* index m, within the clamped range, whose bitmap was missing.
C20_ActiveOutputsOnDisk ==
    [][ last'.op = "validate_and_repair_project_state" =>
            /\ \A i \in 0..project_state'.active_op_index :
                   exists(files', joinpath(project_path,
                              OperationBitmap(At(project_state'.operations, i))))
            /\ LET missing == MissingBitmaps(project_state, files)
               IN  missing # {} =>
                       \E m \in missing :
                           /\ \A n \in missing : m <= n
                           /\ project_state'.active_op_index = m - 1
      ]_vars

\* C21: after validate_and_repair_project_state has returned, canvas_width
\* and canvas_height are positive: a size that was not positive has been
\* replaced by the size of the first layer's bitmap when that can be read,
\* and by a fixed default otherwise, also when there are no layers.
C21_CanvasPositiveAfterRepair ==
    last.op = "validate_and_repair_project_state" =>
        /\ project_state.canvas_width > 0
        /\ project_state.canvas_height > 0

\* C22: on an object with more than one layer, all of the same order,
\* validate_and_repair_project_state gives every layer its list position
\* as order and records the repair; with at most one layer, or with layers
\* of different orders, no order is changed and no such repair recorded.
C22_LegacyOrderRepair ==
    [][ last'.op = "validate_and_repair_project_state" =>
            LET before == project_state.layers
                after == project_state'.layers
                n == Len(before)
                recorded == \E k \in 1..Len(last'.ret) :
                                last'.ret[k] = "Normalized layer order"
            IN  /\ Len(after) = n
                /\ IF n > 1 /\ \A i \in 1..n : before[i].order = before[1].order
                   THEN /\ \A i \in 1..n : after[i].order = i - 1
                        /\ recorded
                   ELSE /\ \A i \in 1..n : after[i].order = before[i].order
                        /\ ~recorded
      ]_vars

\* C22 witness: the repair was recorded on a stack of at least two layers.
C22_Witness ==
    /\ last.op = "validate_and_repair_project_state"
    /\ \E k \in 1..Len(last.ret) : last.ret[k] = "Normalized layer order"
    /\ Len(project_state.layers) >= 2
    /\ project_state.layers[2].order = 1

\* Whether an entry is among those of a list of issues or warnings.
Reported(entries, entry) == \E k \in 1..Len(entries) : entries[k] = entry

\* C23: check_project_health changes nothing of the object; an operation
\* whose output file is missing is reported among the issues exactly when
\* its index is at most active_op_index, and among the warnings when its
\* index is greater; healthy is true exactly when there are no issues.
C23_HealthCheck ==
    [][ last'.op = "check_project_health" =>
            LET p == project_state
                report == last'.ret
            IN  /\ project_state' = p
                /\ \A i \in 0..Len(p.operations) - 1 :
                       LET missing == ~exists(files, joinpath(project_path,
                                              At(p.operations, i).output_path))
                       IN  /\ Reported(report.issues,
                                       <<"Active operation output missing", i>>)
                               <=> (missing /\ i <= p.active_op_index)
                           /\ Reported(report.warnings,
                                       <<"Future operation output missing", i>>)
                               <=> (missing /\ i > p.active_op_index)
                /\ report.healthy <=> (report.issues = <<>>)
      ]_vars

\* C23 witness: one report with the output of the active operation among
\* the issues and that of a later operation among the warnings.
C23_Witness ==
    /\ last.op = "check_project_health"
    /\ project_state.active_op_index = 0
    /\ Reported(last.ret.issues, <<"Active operation output missing", 0>>)
    /\ Reported(last.ret.warnings, <<"Future operation output missing", 1>>)
    /\ ~last.ret.healthy

\* C33: whenever check_project_health reports healthy = true for a state,
\* validate_and_repair_project_state on the same state and directory
\* leaves active_op_index alone: it neither clamps it nor rewinds it.
C33_HealthyMeansNoCursorRepair ==
    [][ ( /\ last'.op = "check_project_health"
          /\ last'.ret.healthy )
        => LET clamped == ClampActiveOpIndex(project_state)
               rewound == CheckOperationOutputs(clamped.state, files)
           IN  /\ clamped.repairs = <<>>
               /\ rewound.repairs = <<>>
               /\ rewound.state.active_op_index =
                      project_state.active_op_index
      ]_vars

----------------------------------------------------------------------------
(* Properties of the compositor *)

\* The layer of the object with this id.
LayerById(p, layer_id) == p.layers[get_layer_index(p, layer_id)]

\* The indexes of the operations, up to the active one, on this layer.
OperationsOn(p, layer_id) ==
    {i \in 0..Len(p.operations) - 1 :
        /\ i <= p.active_op_index
        /\ At(p.operations, i).input_layer_id = layer_id}

\* C12: the bitmap resolved for a layer L is that of the last operation at
\* an index up to active_op_index whose input_layer_id is L.id, and L's
\* own layer_path when there is no such operation; the path resolved is
\* returned when the file is on disk.
C12_BitmapResolution ==
    [][ last'.op = "get_layer_bitmap_path" =>
            LET L == LayerById(project_state, last'.arg)
                on_L == OperationsOn(project_state, L.id)
                resolved ==
                    IF on_L = {} THEN L.layer_path
                    ELSE OperationBitmap(
                             At(project_state.operations,
                                CHOOSE i \in on_L : \A j \in on_L : j <= i))
            IN  IF exists(files, joinpath(project_path, resolved))
                THEN last'.ret = joinpath(project_path, resolved)
                ELSE last'.ret = None
      ]_vars

\* C12 witness: two operations on the same layer, the cursor on the first
\* of them, and the first one's output is what was resolved.
C12_Witness ==
    /\ last.op = "get_layer_bitmap_path"
    /\ Len(project_state.operations) >= 2
    /\ project_state.operations[1].input_layer_id = last.arg
    /\ project_state.operations[2].input_layer_id = last.arg
    /\ project_state.active_op_index = 0
    /\ last.ret = joinpath(project_path, project_state.operations[1].output_path)

\* C13: render_project on a project without layers, or without a visible
\* layer, raises ValueError, writes no file and leaves every field of the
\* object, active_composite_path included, as it was.
C13_RenderNothingToRender ==
    [][ ( /\ last'.op = "render_project"
          /\ \/ project_state.layers = <<>>
             \/ get_visible_layer_count(project_state) = 0 )
        => /\ last'.raised = "ValueError"
           /\ project_state' = project_state
           /\ files' = files
      ]_vars

\* C13 witness: the call was refused on a project that has layers, all of
\* them hidden, and no composite is on disk.
C13_Witness ==
    /\ last.op = "render_project"
    /\ last.raised = "ValueError"
    /\ project_state.layers # <<>>
    /\ ~exists(files, joinpath(project_path, composite_png))

\* C14: render_project on a project with a visible layer raises exactly
\* when the bitmap of every visible layer is missing or cannot be read;
\* otherwise it writes a composite of the layers that remain.
C14_RenderMissingBitmaps ==
    [][ ( /\ last'.op = "render_project"
          /\ get_visible_layer_count(project_state) > 0 )
        => IF CompositedLayers(project_state, files) = <<>>
           THEN /\ last'.raised # ""
                /\ files' = files
           ELSE /\ last'.raised = ""
                /\ exists(files', joinpath(project_path, composite_png))
                /\ Len(files'[joinpath(project_path, composite_png)].pasted) =
                       Len(CompositedLayers(project_state, files))
      ]_vars

\* The list positions of the visible layers whose bitmap is found.
ResolvedLayers(p, fs) ==
    {n \in 1..Len(p.layers) :
        /\ p.layers[n].visible
        /\ get_layer_bitmap_path(p, p.layers[n], fs) # None}

\* Those of them whose bitmap load_image can decode.
ReadableLayers(p, fs) ==
    {n \in ResolvedLayers(p, fs) :
        fs[get_layer_bitmap_path(p, p.layers[n], fs)].kind = "image"}

\* The composite on the disk fs2 is the layers of p at the positions in
\* expected, each once, with the bitmap resolved on the disk fs, its opacity
\* and its (x, y), in ascending order, equal orders in list order.
PaintedExactly(p, fs, fs2, expected) ==
    LET painted == fs2[joinpath(project_path, composite_png)].pasted
        At_(k) == get_layer_index(p, painted[k].layer)
    IN  /\ Len(painted) = Cardinality(expected)
        /\ \A n \in expected : \E k \in 1..Len(painted) : At_(k) = n
        /\ \A k \in 1..Len(painted) :
               /\ At_(k) \in expected
               /\ painted[k].bitmap =
                      get_layer_bitmap_path(p, p.layers[At_(k)], fs)
               /\ painted[k].opacity = p.layers[At_(k)].opacity
               /\ painted[k].x = p.layers[At_(k)].x
               /\ painted[k].y = p.layers[At_(k)].y
        /\ \A k, l \in 1..Len(painted) :
               k < l =>
                   \/ p.layers[At_(k)].order < p.layers[At_(l)].order
                   \/ /\ p.layers[At_(k)].order = p.layers[At_(l)].order
                      /\ At_(k) < At_(l)

\* C30 as stated: a successful render_project paints exactly the visible
\* layers whose bitmap resolves, in ascending order (ties in list order),
\* each with its resolved bitmap, opacity and position, sets
\* active_composite_path, and a second run on the same inputs gives the
\* same paint sequence and output.
C30_PaintsResolvedLayers ==
    [][ (last'.op = "render_project" /\ last'.raised = "") =>
            /\ PaintedExactly(project_state, files, files',
                              ResolvedLayers(project_state, files))
            /\ project_state'.active_composite_path = composite_png
            /\ render_project(project_state', files').files = files'
      ]_vars

\* C30 amended: the layers painted are the visible ones whose bitmap
\* resolves and can be decoded; a bitmap that is found but cannot be read
\* leaves its layer out.  The rest as stated.
C30_PaintsReadableLayers ==
    [][ (last'.op = "render_project" /\ last'.raised = "") =>
            /\ PaintedExactly(project_state, files, files',
                              ReadableLayers(project_state, files))
            /\ project_state'.active_composite_path = composite_png
            /\ render_project(project_state, files').files = files'
            /\ render_project(project_state', files').files = files'
      ]_vars

\* C30 witness: two layers were painted, the second of the list first
\* because its order is the lower one.
C30_Witness ==
    /\ last.op = "render_project"
    /\ last.raised = ""
    /\ Len(project_state.layers) >= 2
    /\ project_state.layers[2].order < project_state.layers[1].order
    /\ exists(files, joinpath(project_path, composite_png))
    /\ Len(files[joinpath(project_path, composite_png)].pasted) = 2
    /\ files[joinpath(project_path, composite_png)].pasted[1].layer =
           project_state.layers[2].id

----------------------------------------------------------------------------
(* Properties of loading *)

\* C26: ProjectState.from_dict returns a state and raises nothing for a
\* document whose project, layer, operation or source-image records carry
\* an unknown field or lack fields added after the original schema.
C26_LoadSurvivesSchemaDrift ==
    [][ last'.op = "from_dict" => last'.raised = "" ]_vars

\* C31: from_dict on a document without the field active_op_index gives
\* active_op_index = len(operations) - 1 when the document has operations
\* and -1 when it has none; a value that is present is taken as it is,
\* out of range or not.
C31_CursorMigration ==
    [][ last'.op = "from_dict" =>
            /\ last'.raised = ""
            /\ project_state'.active_op_index =
                   IF "active_op_index" \in DOMAIN document
                   THEN document.active_op_index
                   ELSE IF Len(document.operations) > 0
                   THEN Len(document.operations) - 1
                   ELSE -1
      ]_vars

\* C31 witness: a document of two operations without the field was loaded
\* and the cursor is on the second.
C31_Witness ==
    /\ last.op = "from_dict"
    /\ "active_op_index" \notin DOMAIN document
    /\ Len(document.operations) = 2
    /\ project_state.active_op_index = 1

----------------------------------------------------------------------------
(* Properties of the layer stack *)

\* C15: set_layer_opacity(id, v) on a layer that exists returns True and
\* stores v cut to the range 0.0 to 1.0 (0 below it, 1 above it, v inside),
\* whatever v is; every layer's opacity stays within the range.
C15_OpacityClamped ==
    [][ last'.op = "set_layer_opacity" =>
            LET n == get_layer_index(project_state, last'.arg[1])
                v == last'.arg[2]
            IN  /\ last'.raised = ""
                /\ last'.ret = (n # 0)
                /\ n # 0 =>
                       project_state'.layers[n].opacity =
                           IF v < 0 THEN 0 ELSE IF v > 100 THEN 100 ELSE v
                /\ \A k \in 1..Len(project_state'.layers) :
                       /\ 0 <= project_state'.layers[k].opacity
                       /\ project_state'.layers[k].opacity <= 100
      ]_vars

\* C15 witness: a value below the range was asked for and 0 was stored.
C15_Witness ==
    /\ last.op = "set_layer_opacity"
    /\ last.ret = TRUE
    /\ last.arg[2] < 0
    /\ LayerById(project_state, last.arg[1]).opacity = 0

\* C16: a project opened (from_dict, then the repair pass) after any run of
\* import_image, delete_layer, move_layer_up and move_layer_down with
\* saves in between has layers whose order values are pairwise distinct.
C16_OrdersUniqueAfterLoad ==
    last.op = "load_project" => OrdersDistinct(project_state)

\* The layers with the order values of the layers at list positions a and
\* b exchanged.
Exchanged(layers, a, b) ==
    [n \in 1..Len(layers) |->
        IF n = a THEN [layers[a] EXCEPT !.order = layers[b].order]
        ELSE IF n = b THEN [layers[b] EXCEPT !.order = layers[a].order]
        ELSE layers[n]]

\* What a move of the layer with this id, by dir places in the sorted
\* sequence, is to do to the object p and to return.
MovedBy(p, layer_id, dir, q, ret) ==
    LET sorted == get_sorted_layers(p)
        pos == SortedPosition(p, sorted, layer_id)
    IN  IF pos # 0 /\ pos + dir >= 1 /\ pos + dir <= Len(sorted)
        THEN /\ ret = TRUE
             /\ q = [p EXCEPT !.layers = Exchanged(p.layers, sorted[pos],
                                                   sorted[pos + dir]),
                              !.updated_at = q.updated_at]
        ELSE /\ ret = FALSE
             /\ q = p

\* C17: move_layer_up on a layer that exists and is not the last of the
\* sorted sequence exchanges its order with that of the next layer of the
\* sequence, changes no other layer and returns True; it returns False and
\* changes nothing when the layer is the last one or does not exist.
\* move_layer_down does the same towards the first of the sequence.
C17_MoveSwapsNeighbours ==
    [][ /\ last'.op = "move_layer_up" =>
               MovedBy(project_state, last'.arg, 1, project_state', last'.ret)
        /\ last'.op = "move_layer_down" =>
               MovedBy(project_state, last'.arg, -1, project_state', last'.ret)
      ]_vars

\* C17 witness: a move up succeeded in a stack of three layers with three
\* different orders, and the moved layer is not on top afterwards.
C17_Witness ==
    /\ last.op = "move_layer_up"
    /\ last.ret = TRUE
    /\ Len(project_state.layers) = 3
    /\ OrdersDistinct(project_state)
    /\ \E n \in 1..3 :
           project_state.layers[n].order >
               LayerById(project_state, last.arg).order

\* C18: normalize_layer_order gives the layers the orders 0..n-1, each
\* once, in the sequence the layers were sorted in before the call (by
\* order, equal orders by list position); nothing else of a layer changes,
\* and a second call changes no order.
C18_NormalizeLayerOrder ==
    [][ last'.op = "normalize_layer_order" =>
            LET before == project_state.layers
                after == project_state'.layers
                n == Len(before)
            IN  /\ Len(after) = n
                /\ \A i \in 1..n :
                       after[i] = [before[i] EXCEPT !.order = after[i].order]
                /\ \A k \in 0..n - 1 :
                       Cardinality({i \in 1..n : after[i].order = k}) = 1
                /\ \A i, j \in 1..n :
                       ( \/ before[i].order < before[j].order
                         \/ before[i].order = before[j].order /\ i < j )
                       => after[i].order < after[j].order
                /\ normalize_layer_order(project_state', clock').layers = after
      ]_vars

\* C18 witness: after the call the stack runs against the list: the first
\* layer of the list lies above the second.
C18_Witness ==
    /\ last.op = "normalize_layer_order"
    /\ Len(project_state.layers) >= 2
    /\ project_state.layers[1].order > project_state.layers[2].order

----------------------------------------------------------------------------
(* Properties of the colour utilities *)

\* C29: for r, g, b in 0..255, parse_color of rgb_to_hex(r, g, b) and
\* parse_color of the decimal triplet "r,g,b" both return (r, g, b); a
\* triplet with a component outside 0..255 raises ValueError.
C29_ParseColorAgrees ==
    [][ last'.op = "parse_color" =>
            LET rgb == last'.arg.rgb
            IN  IF \A k \in 1..3 : 0 <= rgb[k] /\ rgb[k] <= 255
                THEN last'.raised = "" /\ last'.ret = rgb
                ELSE last'.raised = "ValueError"
      ]_vars

\* C29 witness: the triplet "255,0,10" was parsed to (255, 0, 10).
C29_Witness ==
    /\ last.op = "parse_color"
    /\ last.arg.text = <<"2", "5", "5", ",", "0", ",", "1", "0">>
    /\ last.ret = <<255, 0, 10>>

----------------------------------------------------------------------------
(* Properties of the commands *)

\* The object a command works on: the document loaded and repaired.
Repaired == validate_and_repair_project_state(from_dict(document), files, clock + 1).state

\* C24: apply_color_replace_operation reads as its input the bitmap the
\* compositor resolves for the target layer at the active_op_index in
\* force before the record is added, records input_layer_id = that layer,
\* and after success the persisted operations end with the new record and
\* the persisted active_op_index points at it.
C24_ApplyReadsResolvedBitmap ==
    [][ ( /\ last'.op = "apply_color_replace_operation"
          /\ last'.raised = "" )
        => LET target == LayerById(Repaired, last'.ret.input_layer_id)
               persisted == document'.operations
           IN  /\ last'.arg.read =
                      get_layer_bitmap_path(Repaired, target, files)
               /\ IF Repaired.active_op_index >= 0
                  THEN target.id =
                           At(Repaired.operations,
                              Repaired.active_op_index).input_layer_id
                  ELSE target.id = Repaired.layers[1].id
               /\ persisted # <<>>
               /\ persisted[Len(persisted)] = OperationRecord_to_dict(last'.ret)
               /\ document'.active_op_index = Len(persisted) - 1
      ]_vars

\* C25: a command that ends with an error leaves the persisted document
\* as it was before the command began.
C25_CommandsFailAtomically ==
    [][ ( /\ last'.op \in {"apply_color_replace_operation",
                           "undo_operation", "redo_operation"}
          /\ last'.raised # "" )
        => document' = document
      ]_vars

\* C27: undo_operation on a project whose repaired active_op_index is -1
\* returns False, raises nothing and leaves the persisted state as it was,
\* whatever the layers' visibility; so does redo_operation on a project
\* whose repaired cursor is on the last operation.
C27_NothingToUndoIsNoError ==
    [][ /\ ( /\ last'.op = "undo_operation"
             /\ Repaired.active_op_index = -1 )
           => /\ last'.raised = ""
              /\ last'.ret = FALSE
              /\ document' = document
              /\ files' = files
        /\ ( /\ last'.op = "redo_operation"
             /\ Repaired.active_op_index = Len(Repaired.operations) - 1 )
           => /\ last'.raised = ""
              /\ last'.ret = FALSE
              /\ document' = document
              /\ files' = files
      ]_vars

\* C27 witness: undo_operation returned False on a project whose layers
\* are all hidden and whose persisted cursor, on an operation whose output
\* is gone, is repaired to -1.
C27_Witness ==
    /\ last.op = "undo_operation"
    /\ last.raised = ""
    /\ last.ret = FALSE
    /\ document.layers # <<>>
    /\ \A n \in 1..Len(document.layers) : ~document.layers[n].visible
    /\ document.active_op_index = 0
    /\ project_state.active_op_index = -1

\* C28: create_project for names of a project that exists leaves the
\* persisted layers, operations and cursor of that project as they were.
C28_CreateProjectKeepsExisting ==
    [][ last'.op = "create_project" =>
            /\ document'.layers = document.layers
            /\ document'.operations = document.operations
            /\ document'.active_op_index = document.active_op_index
      ]_vars

\* The ids of the records of a document.
RecordIds(doc) == {doc.operations[n].id : n \in 1..Len(doc.operations)}

\* C32: the save at the end of a command puts the command's object in
\* place of the document, whatever was saved since the command loaded: the
\* record another command appended and saved in between is absent
\* afterwards (last write wins), while the record of a command that had
\* saved before this one loaded is kept.
C32_LastWriteWins ==
    [][ last'.op = "project_state.save" =>
            LET c == last'.arg
            IN  /\ document' = to_dict(commands[c].state)
                /\ commands[c].added \in RecordIds(document')
                /\ \A k \in Commands \ {c} :
                       commands[k].pc = "done" =>
                           IF commands[k].added \in commands[c].missed
                           THEN commands[k].added \notin RecordIds(document')
                           ELSE commands[k].added \in RecordIds(document')
      ]_vars

\* C32 witness: both commands loaded before either saved, both have saved,
\* and the record of the one that saved first is not in the document.
C32_Witness ==
    /\ last.op = "project_state.save"
    /\ \A c \in Commands : commands[c].pc = "done"
    /\ \E k \in Commands :
           /\ commands[k].added \in commands[last.arg].missed
           /\ commands[k].added \notin RecordIds(document)
           /\ commands[last.arg].added \in RecordIds(document)

\* C34: in every state reached through import_image, the apply service,
\* undo, redo, delete_operation and delete_layer, the input_layer_id of
\* each operation record is the id of a layer that is in layers.
C34_OperationsReferToLayers ==
    \A n \in 1..Len(project_state.operations) :
        \E k \in 1..Len(project_state.layers) :
            project_state.layers[k].id =
                project_state.operations[n].input_layer_id


\* C35: after a service command that completed (apply_color_replace_operation
\* returning its record, undo_operation or redo_operation returning True),
\* every operation at an index up to the persisted active_op_index has its
\* output file on the disk.
C35_ActiveOutputsOnDisk ==
    ( /\ last.op \in {"apply_color_replace_operation", "undo_operation",
                      "redo_operation"}
      /\ last.raised = ""
      /\ (last.op = "apply_color_replace_operation" \/ last.ret = TRUE) )
    => \A n \in 1..Len(document.operations) :
           n - 1 <= document.active_op_index
           => exists(files, joinpath(project_path,
                                     document.operations[n].output_path))


\* The ids of the layers from the bottom of the stack to the top.
BottomToTop(p) ==
    [n \in 1..Len(p.layers) |-> p.layers[get_sorted_layers(p)[n]].id]

\* C36: after a move_layer_up or move_layer_down that returned True on
\* layers of pairwise distinct orders, the state saved and opened again
\* (from_dict, then the repair pass) has the same bottom-to-top sequence
\* of layers.
C36_StackSurvivesReload ==
    ( /\ last.op \in {"move_layer_up", "move_layer_down"}
      /\ last.ret = TRUE
      /\ OrdersDistinct(project_state) )
    => BottomToTop(validate_and_repair_project_state(
                       from_dict(to_dict(project_state)), files,
                       clock + 1).state)
       = BottomToTop(project_state)


----------------------------------------------------------------------------
(* Properties of the layers' histories *)

\* C37: an undo() or redo() that returned True changes the resolved bitmap
\* (get_layer_bitmap_path) of no layer but the input layer of the operation
\* the cursor moved across: the one it left on undo, the one it reached on
\* redo.
C37_HistoriesIndependent ==
    [][ ( /\ last'.op \in {"undo", "redo"}
          /\ last'.ret = TRUE )
        => LET crossed == Max(project_state.active_op_index,
                              project_state'.active_op_index)
           IN  \A n \in 1..Len(project_state.layers) :
                   get_layer_bitmap_path(project_state',
                                         project_state'.layers[n], files')
                       # get_layer_bitmap_path(project_state,
                                               project_state.layers[n], files)
                   => /\ crossed < Len(project_state.operations)
                      /\ At(project_state.operations, crossed).input_layer_id
                             = project_state.layers[n].id
      ]_vars

\* C37 witness: undo() stepped back over an operation on the second layer,
\* whose bitmap is its own again, while the first layer still resolves to
\* the output of its operation.
C37_Witness ==
    /\ last.op = "undo"
    /\ last.ret = TRUE
    /\ project_state.active_op_index = 0
    /\ Len(project_state.layers) >= 2
    /\ Len(project_state.operations) >= 2
    /\ project_state.operations[2].input_layer_id = project_state.layers[2].id
    /\ exists(files, joinpath(project_path,
                              OperationBitmap(project_state.operations[2])))
    /\ get_layer_bitmap_path(project_state, project_state.layers[1], files)
           = joinpath(project_path,
                      OperationBitmap(project_state.operations[1]))
    /\ get_layer_bitmap_path(project_state, project_state.layers[2], files)
           = joinpath(project_path, project_state.layers[2].layer_path)


----------------------------------------------------------------------------
(* Properties of the layers' fields *)

\* How many layers of p have the order v.
OrderCount(p, v) ==
    Cardinality({n \in 1..Len(p.layers) : p.layers[n].order = v})

OrderValues(p) == {p.layers[n].order : n \in 1..Len(p.layers)}

\* C38: move_layer_up, move_layer_down, set_layer_visibility,
\* set_layer_opacity, set_layer_position and rename_layer leave the
\* multiset of the layers' order values as it was; delete_layer takes away
\* one occurrence of the deleted layer's order and nothing else; orders
\* that were pairwise distinct before any of these calls are pairwise
\* distinct after it.
C38_OrderValuesPreserved ==
    [][ LET values == OrderValues(project_state)
                          \cup OrderValues(project_state')
        IN  /\ last'.op \in {"move_layer_up", "move_layer_down",
                             "set_layer_visibility", "set_layer_opacity",
                             "set_layer_position", "rename_layer"}
               => \A v \in values :
                      OrderCount(project_state', v)
                          = OrderCount(project_state, v)
            /\ last'.op = "delete_layer"
               => LET index == get_layer_index(project_state, last'.arg)
                  IN  \A v \in values :
                          OrderCount(project_state', v)
                              = OrderCount(project_state, v)
                                  - ( IF index # 0
                                         /\ project_state.layers[index].order = v
                                      THEN 1 ELSE 0 )
            /\ ( /\ last'.op \in {"move_layer_up", "move_layer_down",
                                  "set_layer_visibility", "set_layer_opacity",
                                  "set_layer_position", "rename_layer",
                                  "delete_layer"}
                 /\ OrdersDistinct(project_state) )
               => OrdersDistinct(project_state')
      ]_vars

\* C38 witness: of two layers of orders 1 and 0 the second has been placed
\* at (5, -3), and the orders are still 1 and 0.
C38_Witness ==
    /\ last.op = "set_layer_position"
    /\ last.ret = TRUE
    /\ Len(project_state.layers) = 2
    /\ project_state.layers[2].x = 5
    /\ project_state.layers[2].y = -3
    /\ project_state.layers[1].order = 1
    /\ project_state.layers[2].order = 0


\* C39: undo_operation on a project whose repaired active_op_index is at
\* least 0 returns True and persists that index minus one, whether or not
\* layers are shown and bitmaps are there; redo_operation on a project
\* whose repaired cursor is before the last operation returns True and
\* persists that index plus one.
C39_UndoAlwaysTakesEffect ==
    [][ /\ ( /\ last'.op = "undo_operation"
             /\ Repaired.active_op_index >= 0 )
           => /\ last'.raised = ""
              /\ last'.ret = TRUE
              /\ document'.active_op_index = Repaired.active_op_index - 1
        /\ ( /\ last'.op = "redo_operation"
             /\ Repaired.active_op_index < Len(Repaired.operations) - 1 )
           => /\ last'.raised = ""
              /\ last'.ret = TRUE
              /\ document'.active_op_index = Repaired.active_op_index + 1
      ]_vars

====
